---- MODULE Spec2Model ----
(***************************************************************************)
(* Bybit P2P synchronisation service.                                      *)
(*                                                                         *)
(* The module models the periodic trade synchronisation of                 *)
(* src/sync-service.ts (user accounts), the cabinet synchronisation and    *)
(* the chat enrichment passes of the later service versions, and the       *)
(* exchange client of src/bybit.ts.  Every asynchronous handler is cut at  *)
(* its awaits: one action performs one awaited operation (network call,    *)
(* store call, sleep) together with the synchronous code that follows it   *)
(* up to the next await.                                                   *)
(***************************************************************************)
EXTENDS Integers, Sequences, FiniteSets, TLC

\* ------------------------------------------------------------------------
\* Bounds of the model
\* ------------------------------------------------------------------------
\* longest upstream order list of an account
MaxFeedLen == 2
\* number of failures (transport, API, store) the environment injects
MaxFaults == 2
\* number of sync cycles the timer starts
MaxTicks == 2
\* The records of the second page of the two-page scenario.
E2ETail == 5

\* ------------------------------------------------------------------------
\* Program constants
\* ------------------------------------------------------------------------
PageCap == 10
PageSize1 == 20
PageSize2 == 10
CabinetPageSize == 10
StatusCompleted == 50
StatusCancelled == 40
SideSell == 1
SideBuy == 0

Users == {1, 2}
CycleIds == {1, 2}

Min(a, b) == IF a < b THEN a ELSE b

\* ------------------------------------------------------------------------
\* Upstream data
\* ------------------------------------------------------------------------
\* A raw trade of the exchange.  id and orderId are 0 when the field is
\* absent (falsy in the source); amount and price are the parsed decimals.
Raw(id, orderId, side, status, amount, price, qty) ==
    [id |-> id, orderId |-> orderId, side |-> side, status |-> status,
     amount |-> amount, price |-> price, notifyTokenQuantity |-> qty]

SellOne == Raw(1, 0, SideSell, StatusCompleted, 3, 2, 3)

RawTrades ==
    { SellOne,
      Raw(0, 2, SideSell, StatusCompleted, 2, 2, 1),
      Raw(0, 0, SideSell, StatusCompleted, 1, 1, 1),
      Raw(1, 0, SideBuy, StatusCompleted, 3, 2, 3),
      Raw(2, 0, SideSell, StatusCancelled, 1, 5, 1) }

BoundedSeq(S, n) == UNION { [1..k -> S] : k \in 0..n }

\* The order list the exchange holds for an account, newest first; the
\* first nRecent orders fall into the three-day window of strategy 1.
Feed(its, k) == [items |-> its, nRecent |-> k]

\* The feeds of the model: every order inside the window, or none of them.
Feeds ==
    UNION { {Feed(its, 0), Feed(its, Len(its))} :
              its \in BoundedSeq(RawTrades, MaxFeedLen) }

\* What the exchange serves for a strategy: the windowed list or all of it.
StrategyItems(f, strategy) ==
    IF strategy = 1 THEN SubSeq(f.items, 1, f.nRecent) ELSE f.items

\* Page `page` (1-based) of `items` for the page size `size`.
PageOf(items, size, page) ==
    SubSeq(items, (page - 1) * size + 1, Min(page * size, Len(items)))

\* ------------------------------------------------------------------------
\* State
\* ------------------------------------------------------------------------
VARIABLES
    deployed,          \* the service version that runs: "users" is
                       \* src/sync-service.ts, "cabinets" the cabinet service
    users,             \* account id -> [bybitApiToken, bybitApiSecret]
    upstream,          \* account id -> feed of the exchange
    dateInRange,       \* the wall clock lies in the years the cabinet
                       \* synchronisation accepts
    bybitTransaction,  \* the stored user transactions, in insertion order
    bybitTransactionFromCabinet, \* the stored cabinet transactions
    userStatus,        \* account id -> lastBybitSyncStatus
    cyc,               \* cycle id -> state of one synchronisation cycle
    sent,              \* requests that reached the network
    faults,            \* failures injected so far
    ticks,             \* timer callbacks started so far
    lastRun,           \* user id -> summary of the last syncUserTransactions
    chat,              \* order number -> the messages of the order's chat
    bybitOrderInfo,    \* the stored phone records, in insertion order
    enr,               \* state of the pass over the unprocessed transactions
    call,              \* a call of the exchange client made outside the
                       \* service: operation, argument, position, result
    boot               \* start() of the service: position, isRunning, timer,
                       \* connection attempts and sleeps

vars == <<deployed, users, upstream, dateInRange, bybitTransaction,
          bybitTransactionFromCabinet, userStatus, cyc, sent, faults, ticks,
          lastRun, chat, bybitOrderInfo, enr, call, boot>>

\* What no step of a synchronisation cycle touches.
enrVars == <<chat, bybitOrderInfo, enr>>

\* What no action of a synchronisation cycle changes.
envVars == <<deployed, users, upstream, dateInRange, call, boot>>

\* ------------------------------------------------------------------------
\* Exchange client (src/bybit.ts)
\* ------------------------------------------------------------------------
NewParser == [timeSyncComplete |-> FALSE, timeOffset |-> 0]

\* syncTime: a well-formed answer sets the offset and the flag, a malformed
\* answer changes nothing, an exception resets the offset only.
syncTime(p, outcome) ==
    CASE outcome = "ok"        -> [timeSyncComplete |-> TRUE, timeOffset |-> 1]
      [] outcome = "malformed" -> p
      [] OTHER                 -> [p EXCEPT !.timeOffset = 0]

\* makeRequest refuses to send before the clock is synchronised.
MakeRequestSends(p) == p.timeSyncComplete

\* getAndProcessAllOrders: the result of one page request.  net is the
\* behaviour of the network for the request, items the page served.
getAndProcessAllOrders(p, net, items) ==
    IF ~MakeRequestSends(p)
    THEN [success |-> FALSE, transactions |-> <<>>, message |-> "NotSynced"]
    ELSE CASE net = "throw" ->
                [success |-> FALSE, transactions |-> <<>>,
                 message |-> "Transport"]
           [] net = "apiError" ->
                [success |-> FALSE, transactions |-> <<>>,
                 message |-> "ApiError"]
           [] OTHER ->
                [success |-> TRUE, transactions |-> items, message |-> "ok"]

\* ------------------------------------------------------------------------
\* Normalisation of user trades (src/sync-service.ts)
\* ------------------------------------------------------------------------
\* transaction.id || transaction.orderId || ''
OrderNoOf(t) == IF t.id # 0 THEN t.id ELSE t.orderId

\* A filter that lets every record through.
AcceptsAll(t) == TRUE

\* The filter in front of the store: Sell side and Completed status.
PassesUserFilter(t) == t.side = SideSell /\ t.status = StatusCompleted

\* The row syncUserTransactions creates for a trade.
UserRow(t, u) ==
    [orderNo |-> OrderNoOf(t), userId |-> u, status |-> "Completed",
     type |-> "Sell", amount |-> t.amount, unitPrice |-> t.price,
     totalPrice |-> t.amount * t.price, processed |-> FALSE,
     lastAttemptError |-> "none"]

\* Index of the first record at or after i that reaches the store lookup:
\* records failing the filter or lacking an identifier are skipped.
RECURSIVE NextStoreIdx(_, _)
NextStoreIdx(all, i) ==
    IF i > Len(all) THEN i
    ELSE IF PassesUserFilter(all[i]) /\ OrderNoOf(all[i]) # 0 THEN i
    ELSE NextStoreIdx(all, i + 1)

\* A lookup that never finds the stored row.
FindFirstNever(rows, orderNo, u) == FALSE

\* findFirst({orderNo, userId})
findFirst(rows, orderNo, u) ==
    \E i \in 1..Len(rows) : rows[i].orderNo = orderNo /\ rows[i].userId = u

\* ------------------------------------------------------------------------
\* Initial state
\* ------------------------------------------------------------------------
NoStatus == [kind |-> "None", n |-> 0]
Status(kind, n) == [kind |-> kind, n |-> n]

Cred(token, secret) == [bybitApiToken |-> token, bybitApiSecret |-> secret]

\* "" is the empty string of the source; the user query of syncAllUsers only
\* excludes null.
CredChoices == { Cred("key", "secret"), Cred("key", ""), Cred("null", "secret") }

IdleCycle ==
    [pc |-> "idle", users |-> <<>>, ui |-> 0, parser |-> NewParser,
     strategy |-> 0, page |-> 0, hasSuccess |-> FALSE, all |-> <<>>,
     ti |-> 0, savedCount |-> 0, status |-> NoStatus,
     reqs |-> <<>>, invoked |-> <<>>, writes |-> 0, clean |-> TRUE,
     startRows |-> 0, inserted |-> 0, slept |-> 0, looked |-> {}]

NoRun == [done |-> FALSE, clean |-> FALSE, inserted |-> 0, cleanRuns |-> 0]

\* The second user holds one order, with the order number of the first
\* user's orders.
OtherFeed == Feed(<<SellOne>>, 1)

InitUsers ==
    /\ deployed = "users"
    /\ users \in { us \in [Users -> CredChoices] : us[1] = Cred("key", "secret") }
    /\ upstream \in { up \in [Users -> Feeds] : up[2] = OtherFeed }
    /\ dateInRange = TRUE
    /\ bybitTransactionFromCabinet = <<>>

\* A cabinet row written by an earlier run, before its order completed.
OldCabinetRow ==
    [orderNo |-> 1, cabinetId |-> 2, status |-> "PENDING", type |-> "SELL",
     amount |-> 3, unitPrice |-> 2, totalPrice |-> 3, processed |-> FALSE,
     extractedPhones |-> {}, lastAttemptError |-> "none"]

\* The cabinet service only asks for the window, so its feeds are the
\* windowed ones.
InitCabinets ==
    /\ deployed = "cabinets"
    /\ users \in { us \in [Users -> CredChoices] : us[1] = Cred("key", "secret") }
    /\ upstream \in { up \in [Users -> Feeds] :
                         /\ up[2] = OtherFeed
                         /\ up[1].nRecent = Len(up[1].items) }
    /\ dateInRange \in BOOLEAN
    /\ bybitTransactionFromCabinet \in {<<>>, <<OldCabinetRow>>}
    /\ ~dateInRange => bybitTransactionFromCabinet = <<>>

\* No pass over the unprocessed transactions is under way.
IdleEnr ==
    [pc |-> "idle", table |-> "none", list |-> <<>>, i |-> 0,
     parser |-> NewParser, msgs |-> <<>>, phones |-> {}, err |-> "none",
     threw |-> {}, storeFault |-> FALSE, atStart |-> {}]

NoChats == [o \in {1, 2} |-> <<>>]

\* start() has returned: the first synchronisation is over and the timer
\* is armed.
Started ==
    [pc |-> "running", isRunning |-> TRUE, syncInterval |-> TRUE,
     attempts |-> 0, connects |-> 1, slept |-> <<>>, syncRuns |-> 1]

\* No direct call of the client is under way.
NoCall == [op |-> "none", pc |-> "done"]

InitRest ==
    /\ call = NoCall
    /\ boot = Started
    /\ chat = NoChats
    /\ bybitOrderInfo = <<>>
    /\ enr = IdleEnr
    /\ bybitTransaction = <<>>
    /\ userStatus = [u \in Users |-> NoStatus]
    /\ cyc = [c \in CycleIds |-> IdleCycle]
    /\ sent = {}
    /\ faults = 0
    /\ ticks = 0
    /\ lastRun = [u \in Users |-> NoRun]

Init == (InitUsers \/ InitCabinets) /\ InitRest

\* ------------------------------------------------------------------------
\* syncAllUsers and syncUserTransactions (src/sync-service.ts)
\* ------------------------------------------------------------------------
CurUser(c) == cyc[c].users[cyc[c].ui]

AllIdle == \A c \in CycleIds : cyc[c].pc = "idle"

\* The slot a new cycle takes: the least idle one.
LeastIdle(c) ==
    /\ cyc[c].pc = "idle"
    /\ \A d \in CycleIds : d < c => cyc[d].pc # "idle"

\* A failure may be injected while the budget lasts.
MayFail == faults < MaxFaults
Fault(failed) == faults' = IF failed THEN faults + 1 ELSE faults

\* The users the query of syncAllUsers returns: token and secret not null.
RECURSIVE SeqOfSet(_)
SeqOfSet(S) ==
    IF S = {} THEN <<>>
    ELSE LET m == CHOOSE x \in S : \A y \in S : x <= y
         IN <<m>> \o SeqOfSet(S \ {m})

UsersWithKeys ==
    SeqOfSet({ u \in Users : users[u].bybitApiToken # "null"
                              /\ users[u].bybitApiSecret # "null" })

\* A credential check that lets every account through.
ChecksNoCredentials(cred) == FALSE

\* !user.bybitApiToken || !user.bybitApiSecret
LacksKeys(cred) ==
    cred.bybitApiToken \in {"null", ""} \/ cred.bybitApiSecret \in {"null", ""}

\* The interval callback (or the first call of start) enters syncAllUsers
\* while no other cycle is suspended.
Tick(c) ==
    /\ deployed = "users"
    /\ AllIdle
    /\ LeastIdle(c)
    /\ ticks < MaxTicks
    /\ ticks' = ticks + 1
    /\ cyc' = [cyc EXCEPT ![c] = [IdleCycle EXCEPT !.pc = "loadUsers"]]
    /\ UNCHANGED <<envVars, enrVars, bybitTransactionFromCabinet, bybitTransaction, userStatus, sent,
                   faults, lastRun>>

\* user.findMany and the entry into the loop over the users.
LoadUsers(c) ==
    /\ cyc[c].pc = "loadUsers"
    /\ \E ok \in BOOLEAN :
         /\ ~ok => MayFail
         /\ Fault(~ok)
         /\ cyc' = [cyc EXCEPT ![c] =
               IF ok /\ UsersWithKeys # <<>>
               THEN [@ EXCEPT !.pc = "user", !.users = UsersWithKeys, !.ui = 1]
               ELSE [@ EXCEPT !.pc = "done"]]
    /\ UNCHANGED <<envVars, enrVars, bybitTransactionFromCabinet, bybitTransaction, userStatus, sent,
                   ticks, lastRun>>

\* Entry of syncUserTransactions: the credential check, the new client and
\* its syncTime.
SyncUser(c) ==
    /\ cyc[c].pc = "user"
    /\ LET u == CurUser(c)
           base == [cyc[c] EXCEPT !.invoked = Append(@, u), !.writes = 0,
                                   !.reqs = <<>>, !.all = <<>>,
                                   !.hasSuccess = FALSE, !.savedCount = 0,
                                   !.inserted = 0, !.ti = 0,
                                   !.status = NoStatus, !.looked = {},
                                   !.startRows = Len(bybitTransaction)]
       IN IF LacksKeys(users[u])
          THEN /\ cyc' = [cyc EXCEPT ![c] = [base EXCEPT !.pc = "sleep"]]
               /\ UNCHANGED <<sent, faults>>
          ELSE \E outcome \in {"ok", "malformed", "throw"} :
                 /\ outcome # "ok" => MayFail
                 /\ Fault(outcome # "ok")
                 /\ sent' = sent \cup {[kind |-> "time", synced |-> FALSE]}
                 /\ cyc' = [cyc EXCEPT ![c] =
                       [base EXCEPT !.pc = "fetch",
                                    !.parser = syncTime(NewParser, outcome),
                                    !.strategy = 1, !.page = 1,
                                    !.clean = (outcome = "ok")]]
    /\ UNCHANGED <<envVars, enrVars, bybitTransactionFromCabinet, bybitTransaction, userStatus, ticks,
                   lastRun>>

\* result.success && result.data && result.data.transactions.length > 0
PageAccepted(result) == result.success /\ Len(result.transactions) > 0

\* The page size each strategy asks for.
PageSizeOf(strategy) == IF strategy = 1 THEN PageSize1 ELSE PageSize2

\* A fallback that is tried whatever strategy 1 returned.
AlwaysStrategy2(strategy, hasSuccess) == strategy = 1

\* if (!hasSuccess) before the loop of strategy 2
TryStrategy2(strategy, hasSuccess) == strategy = 1 /\ ~hasSuccess

\* A loop without the cap.
UncappedPages(page) == TRUE

\* A loop that never asks for a second page.
NoMorePages(page) == FALSE

\* The loop condition page <= 10 after page++.
MorePages(page) == page + 1 <= PageCap

\* The status syncUserTransactions reports once the store loop is over.
FinalStatus(savedCount) == Status("Success", savedCount)

\* Continue the store loop at index i, or leave it for the status write.
StoreLoopFrom(cy, i) ==
    LET j == NextStoreIdx(cy.all, i)
    IN IF j > Len(cy.all)
       THEN [cy EXCEPT !.ti = j, !.pc = "status",
                       !.status = FinalStatus(cy.savedCount)]
       ELSE [cy EXCEPT !.ti = j, !.pc = "lookup"]

\* The code after the two strategy loops.
AfterFetch(cy) ==
    IF ~cy.hasSuccess \/ Len(cy.all) = 0
    THEN [cy EXCEPT !.pc = "status", !.status = Status("NoNew", 0)]
    ELSE StoreLoopFrom(cy, 1)

ReqKind(p, result) ==
    IF ~MakeRequestSends(p) THEN "unsent"
    ELSE IF ~result.success THEN "failed"
    ELSE IF Len(result.transactions) = 0 THEN "empty"
    ELSE "data"

\* One page request of a strategy loop and the loop control after it.
Fetch(c) ==
    /\ cyc[c].pc = "fetch"
    /\ LET cy == cyc[c]
           u == CurUser(c)
           items == PageOf(StrategyItems(upstream[u], cy.strategy),
                           PageSizeOf(cy.strategy), cy.page)
       IN \E net \in {"ok", "apiError", "throw"} :
            /\ net # "ok" => MayFail /\ MakeRequestSends(cy.parser)
            /\ Fault(net # "ok")
            /\ sent' = IF MakeRequestSends(cy.parser)
                        THEN sent \cup {[kind |-> "orders",
                                          synced |-> cy.parser.timeSyncComplete]}
                        ELSE sent
            /\ LET result == getAndProcessAllOrders(cy.parser, net, items)
                   got == PageAccepted(result)
                   logged == [cy EXCEPT
                       !.reqs = Append(@, [strategy |-> cy.strategy,
                                           page |-> cy.page,
                                           res |-> ReqKind(cy.parser, result)]),
                       !.clean = @ /\ net = "ok",
                       !.all = IF got THEN @ \o result.transactions ELSE @,
                       !.hasSuccess = @ \/ got]
               IN cyc' = [cyc EXCEPT ![c] =
                    IF got /\ MorePages(cy.page)
                    THEN [logged EXCEPT !.page = cy.page + 1]
                    ELSE IF TryStrategy2(cy.strategy, logged.hasSuccess)
                    THEN [logged EXCEPT !.strategy = 2, !.page = 1]
                    ELSE AfterFetch(logged)]
    /\ UNCHANGED <<envVars, enrVars, bybitTransactionFromCabinet, bybitTransaction, userStatus, ticks,
                   lastRun>>

\* bybitTransaction.findFirst for the record at ti.
Lookup(c) ==
    /\ cyc[c].pc = "lookup"
    /\ LET cy == cyc[c]
           u == CurUser(c)
           orderNo == OrderNoOf(cy.all[cy.ti])
           seen == [cy EXCEPT !.looked = @ \cup {cy.ti}]
       IN \E ok \in BOOLEAN :
            /\ ~ok => MayFail
            /\ Fault(~ok)
            /\ cyc' = [cyc EXCEPT ![c] =
                  IF ~ok
                  THEN StoreLoopFrom([seen EXCEPT !.clean = FALSE], cy.ti + 1)
                  ELSE IF findFirst(bybitTransaction, orderNo, u)
                  THEN StoreLoopFrom(seen, cy.ti + 1)
                  ELSE [seen EXCEPT !.pc = "create"]]
    /\ UNCHANGED <<envVars, enrVars, bybitTransactionFromCabinet, bybitTransaction, userStatus, sent,
                   ticks, lastRun>>

\* bybitTransaction.create for the record at ti.
Create(c) ==
    /\ cyc[c].pc = "create"
    /\ LET cy == cyc[c]
           u == CurUser(c)
       IN \E ok \in BOOLEAN :
            /\ ~ok => MayFail
            /\ Fault(~ok)
            /\ bybitTransaction' =
                  IF ok THEN Append(bybitTransaction, UserRow(cy.all[cy.ti], u))
                  ELSE bybitTransaction
            /\ cyc' = [cyc EXCEPT ![c] =
                  IF ok
                  THEN StoreLoopFrom([cy EXCEPT !.savedCount = @ + 1,
                                                !.inserted = @ + 1], cy.ti + 1)
                  ELSE StoreLoopFrom([cy EXCEPT !.clean = FALSE], cy.ti + 1)]
    /\ UNCHANGED <<envVars, enrVars, bybitTransactionFromCabinet, userStatus, sent, ticks, lastRun>>

\* The summary kept of a finished syncUserTransactions call.
RunSummary(old, cy, written) ==
    [done |-> TRUE, clean |-> cy.clean /\ written, inserted |-> cy.inserted,
     cleanRuns |-> IF cy.clean /\ written THEN Min(2, old.cleanRuns + 1) ELSE 0]

\* updateUserSyncStatus: a failed update is logged and swallowed.
WriteStatus(c) ==
    /\ cyc[c].pc = "status"
    /\ LET cy == cyc[c]
           u == CurUser(c)
       IN \E ok \in BOOLEAN :
            /\ ~ok => MayFail
            /\ Fault(~ok)
            /\ userStatus' = IF ok THEN [userStatus EXCEPT ![u] = cy.status]
                              ELSE userStatus
            /\ lastRun' = [lastRun EXCEPT ![u] = RunSummary(@, cy, ok)]
            /\ cyc' = [cyc EXCEPT ![c] =
                  [cy EXCEPT !.pc = "sleep", !.writes = @ + 1,
                             !.clean = @ /\ ok]]
    /\ UNCHANGED <<envVars, enrVars, bybitTransactionFromCabinet, bybitTransaction, sent, ticks>>

\* A loop that stops at the first account whose sync met a failure.
AbortOnFailure(cy) ==
    IF cy.ui < Len(cy.users) /\ cy.clean
    THEN [cy EXCEPT !.pc = "user", !.ui = @ + 1]
    ELSE [cy EXCEPT !.pc = "done"]

\* After the pacing sleep: the next user, or the end of the loop.
NextAccount(cy) ==
    IF cy.ui < Len(cy.users)
    THEN [cy EXCEPT !.pc = "user", !.ui = @ + 1]
    ELSE [cy EXCEPT !.pc = "done"]

\* A loop whose pause is skipped after an account that met a failure.
SleepIfClean(c) ==
    /\ cyc[c].pc = "sleep"
    /\ cyc' = [cyc EXCEPT ![c] =
          NextAccount([cyc[c] EXCEPT !.slept = IF cyc[c].clean THEN @ + 1
                                                ELSE @])]
    /\ UNCHANGED <<envVars, enrVars, bybitTransactionFromCabinet, bybitTransaction, userStatus, sent,
                   faults, ticks, lastRun>>

\* sleep(1000) between two users.
Sleep(c) ==
    /\ cyc[c].pc = "sleep"
    /\ cyc' = [cyc EXCEPT ![c] = NextAccount([cyc[c] EXCEPT !.slept = @ + 1])]
    /\ UNCHANGED <<envVars, enrVars, bybitTransactionFromCabinet, bybitTransaction, userStatus, sent,
                   faults, ticks, lastRun>>

\* syncAllUsers returns.
CycleEnd(c) ==
    /\ deployed = "users"
    /\ cyc[c].pc = "done"
    /\ cyc' = [cyc EXCEPT ![c] = IdleCycle]
    /\ UNCHANGED <<envVars, enrVars, bybitTransactionFromCabinet, bybitTransaction, userStatus, sent,
                   faults, ticks, lastRun>>

\* ------------------------------------------------------------------------
\* syncAllBybitCabinets and syncCabinetTransactions (cabinet service)
\* ------------------------------------------------------------------------
\* The status text of transformCabinetTransactionToDbFormat.
CabinetStatusText(code) ==
    CASE code = 40 -> "CANCELED"
      [] code = 50 -> "COMPLETED"
      [] code = 30 -> "COMPLETED"
      [] code = 20 -> "PENDING"
      [] code = 0  -> "PENDING"
      [] OTHER     -> "UNKNOWN"

\* transformCabinetTransactionToDbFormat
CabinetRow(t, cab) ==
    [orderNo |-> t.id, cabinetId |-> cab,
     status |-> CabinetStatusText(t.status),
     type |-> IF t.side = 0 THEN "BUY" ELSE "SELL",
     amount |-> t.notifyTokenQuantity, unitPrice |-> t.price,
     totalPrice |-> t.amount, processed |-> FALSE,
     extractedPhones |-> {}, lastAttemptError |-> "none"]

\* transactions.filter(tx => tx.status === 50).filter(tx => tx.side === 1)
PassesCabinetFilter(t) == t.status = StatusCompleted /\ t.side = SideSell

RECURSIVE NextCabinetIdx(_, _)
NextCabinetIdx(all, i) ==
    IF i > Len(all) THEN i
    ELSE IF PassesCabinetFilter(all[i]) THEN i
    ELSE NextCabinetIdx(all, i + 1)

\* findUnique({orderNo}): the positions of the rows with the order number.
findUnique(rows, orderNo) ==
    { i \in 1..Len(rows) : rows[i].orderNo = orderNo }

\* Continue the loop over the completed trades at index i, or leave it for
\* the status write; the status counts the fetched trades.
CabinetLoopFrom(cy, i) ==
    LET j == NextCabinetIdx(cy.all, i)
    IN IF j > Len(cy.all)
       THEN [cy EXCEPT !.ti = j, !.pc = "cstatus",
                       !.status = Status("Success", Len(cy.all))]
       ELSE [cy EXCEPT !.ti = j, !.pc = "clookup"]

\* The outer catch of syncCabinetTransactions.
CabinetCatch(cy) ==
    [cy EXCEPT !.pc = "cstatus", !.status = Status("Error", 0),
               !.clean = FALSE]

CabTick(c) ==
    /\ deployed = "cabinets"
    /\ AllIdle
    /\ LeastIdle(c)
    /\ ticks < MaxTicks
    /\ ticks' = ticks + 1
    /\ cyc' = [cyc EXCEPT ![c] = [IdleCycle EXCEPT !.pc = "loadCabinets"]]
    /\ UNCHANGED <<envVars, enrVars, bybitTransactionFromCabinet, bybitTransaction,
                   userStatus, sent, faults, lastRun>>

\* bybitCabinet.findMany(): every cabinet, whatever its keys.
LoadCabinets(c) ==
    /\ cyc[c].pc = "loadCabinets"
    /\ \E ok \in BOOLEAN :
         /\ ~ok => MayFail
         /\ Fault(~ok)
         /\ cyc' = [cyc EXCEPT ![c] =
               IF ok
               THEN [@ EXCEPT !.pc = "cabinet", !.users = SeqOfSet(Users),
                              !.ui = 1]
               ELSE [@ EXCEPT !.pc = "done"]]
    /\ UNCHANGED <<envVars, enrVars, bybitTransactionFromCabinet, bybitTransaction,
                   userStatus, sent, ticks, lastRun>>

\* Entry of syncCabinetTransactions: the key check, syncTime and the check
\* of the computed period against the years 2020-2025.
SyncCabinet(c) ==
    /\ cyc[c].pc = "cabinet"
    /\ LET u == CurUser(c)
           base == [cyc[c] EXCEPT !.invoked = Append(@, u), !.writes = 0,
                                   !.reqs = <<>>, !.all = <<>>,
                                   !.hasSuccess = FALSE, !.savedCount = 0,
                                   !.inserted = 0, !.ti = 0,
                                   !.status = NoStatus, !.looked = {},
                                   !.clean = TRUE,
                                   !.startRows = Len(bybitTransactionFromCabinet)]
       IN IF LacksKeys(users[u])
          THEN /\ cyc' = [cyc EXCEPT ![c] = CabinetCatch(base)]
               /\ UNCHANGED <<sent, faults>>
          ELSE \E outcome \in {"ok", "malformed", "throw"} :
                 /\ outcome # "ok" => MayFail
                 /\ Fault(outcome # "ok")
                 /\ sent' = sent \cup {[kind |-> "time", synced |-> FALSE]}
                 /\ cyc' = [cyc EXCEPT ![c] =
                       [base EXCEPT !.pc = IF dateInRange THEN "cfetch"
                                                          ELSE "csleep",
                                    !.parser = syncTime(NewParser, outcome),
                                    !.strategy = 1, !.page = 1,
                                    !.clean = (outcome = "ok")]]
    /\ UNCHANGED <<envVars, enrVars, bybitTransactionFromCabinet, bybitTransaction,
                   userStatus, ticks, lastRun>>

\* The single getAndProcessAllOrders call and the code up to the loop.
CabFetch(c) ==
    /\ cyc[c].pc = "cfetch"
    /\ LET cy == cyc[c]
           u == CurUser(c)
           items == PageOf(StrategyItems(upstream[u], 1), CabinetPageSize, 1)
       IN \E net \in {"ok", "apiError", "throw"} :
            /\ net # "ok" => MayFail /\ MakeRequestSends(cy.parser)
            /\ Fault(net # "ok")
            /\ sent' = IF MakeRequestSends(cy.parser)
                        THEN sent \cup {[kind |-> "orders",
                                          synced |-> cy.parser.timeSyncComplete]}
                        ELSE sent
            /\ LET result == getAndProcessAllOrders(cy.parser, net, items)
                   logged == [cy EXCEPT
                       !.reqs = Append(@, [strategy |-> 1, page |-> 1,
                                           res |-> ReqKind(cy.parser, result)]),
                       !.all = result.transactions]
               IN cyc' = [cyc EXCEPT ![c] =
                    IF ~result.success THEN CabinetCatch(logged)
                    ELSE IF Len(result.transactions) = 0
                    THEN [logged EXCEPT !.pc = "cstatus",
                                        !.status = Status("NoNew", 0)]
                    ELSE CabinetLoopFrom(logged, 1)]
    /\ UNCHANGED <<envVars, enrVars, bybitTransactionFromCabinet, bybitTransaction,
                   userStatus, ticks, lastRun>>

\* findUnique for the record at ti; a record without id makes the query
\* invalid, which throws like a failed query.
CabLookup(c) ==
    /\ cyc[c].pc = "clookup"
    /\ LET cy == cyc[c]
           t == cy.all[cy.ti]
           seen == [cy EXCEPT !.looked = @ \cup {cy.ti}]
           found == findUnique(bybitTransactionFromCabinet, t.id)
       IN \E ok \in BOOLEAN :
            /\ ~ok => MayFail
            /\ Fault(~ok)
            /\ cyc' = [cyc EXCEPT ![c] =
                  IF ~ok \/ t.id = 0 THEN CabinetCatch(seen)
                  ELSE IF found = {} THEN [seen EXCEPT !.pc = "ccreate"]
                  ELSE IF \E i \in found :
                            bybitTransactionFromCabinet[i].status
                              # CabinetRow(t, CurUser(c)).status
                  THEN [seen EXCEPT !.pc = "cupdate"]
                  ELSE CabinetLoopFrom(seen, cy.ti + 1)]
    /\ UNCHANGED <<envVars, enrVars, bybitTransactionFromCabinet, bybitTransaction,
                   userStatus, sent, ticks, lastRun>>

\* bybitTransactionFromCabinet.create; orderNo is unique in the table.
CabCreate(c) ==
    /\ cyc[c].pc = "ccreate"
    /\ LET cy == cyc[c]
           row == CabinetRow(cy.all[cy.ti], CurUser(c))
           taken == findUnique(bybitTransactionFromCabinet, row.orderNo) # {}
       IN \E ok \in BOOLEAN :
            /\ ~ok => MayFail
            /\ Fault(~ok)
            /\ bybitTransactionFromCabinet' =
                  IF ok /\ ~taken
                  THEN Append(bybitTransactionFromCabinet, row)
                  ELSE bybitTransactionFromCabinet
            /\ cyc' = [cyc EXCEPT ![c] =
                  IF ok /\ ~taken
                  THEN CabinetLoopFrom([cy EXCEPT !.inserted = @ + 1],
                                       cy.ti + 1)
                  ELSE CabinetCatch(cy)]
    /\ UNCHANGED <<envVars, enrVars, bybitTransaction, userStatus, sent, ticks,
                   lastRun>>

\* An update that writes the whole converted record over the existing row.
CabOverwrite(c) ==
    /\ cyc[c].pc = "cupdate"
    /\ LET cy == cyc[c]
           row == CabinetRow(cy.all[cy.ti], CurUser(c))
           found == findUnique(bybitTransactionFromCabinet, row.orderNo)
       IN \E ok \in BOOLEAN :
            /\ ~ok => MayFail
            /\ Fault(~ok)
            /\ bybitTransactionFromCabinet' =
                  IF ok
                  THEN [i \in 1..Len(bybitTransactionFromCabinet) |->
                          IF i \in found THEN row
                          ELSE bybitTransactionFromCabinet[i]]
                  ELSE bybitTransactionFromCabinet
            /\ cyc' = [cyc EXCEPT ![c] =
                  IF ok THEN CabinetLoopFrom(cy, cy.ti + 1)
                  ELSE CabinetCatch(cy)]
    /\ UNCHANGED <<envVars, enrVars, bybitTransaction, userStatus, sent, ticks,
                   lastRun>>

\* bybitTransactionFromCabinet.update of the status of an existing row.
CabUpdate(c) ==
    /\ cyc[c].pc = "cupdate"
    /\ LET cy == cyc[c]
           row == CabinetRow(cy.all[cy.ti], CurUser(c))
           found == findUnique(bybitTransactionFromCabinet, row.orderNo)
       IN \E ok \in BOOLEAN :
            /\ ~ok => MayFail
            /\ Fault(~ok)
            /\ bybitTransactionFromCabinet' =
                  IF ok
                  THEN [i \in 1..Len(bybitTransactionFromCabinet) |->
                          IF i \in found
                          THEN [bybitTransactionFromCabinet[i]
                                  EXCEPT !.status = row.status]
                          ELSE bybitTransactionFromCabinet[i]]
                  ELSE bybitTransactionFromCabinet
            /\ cyc' = [cyc EXCEPT ![c] =
                  IF ok THEN CabinetLoopFrom(cy, cy.ti + 1)
                  ELSE CabinetCatch(cy)]
    /\ UNCHANGED <<envVars, enrVars, bybitTransaction, userStatus, sent, ticks,
                   lastRun>>

\* updateCabinetSyncStatus: a failed update is logged and swallowed.
CabWriteStatus(c) ==
    /\ cyc[c].pc = "cstatus"
    /\ LET cy == cyc[c]
           u == CurUser(c)
       IN \E ok \in BOOLEAN :
            /\ ~ok => MayFail
            /\ Fault(~ok)
            /\ userStatus' = IF ok THEN [userStatus EXCEPT ![u] = cy.status]
                              ELSE userStatus
            /\ lastRun' = [lastRun EXCEPT ![u] = RunSummary(@, cy, ok)]
            /\ cyc' = [cyc EXCEPT ![c] =
                  [cy EXCEPT !.pc = "csleep", !.writes = @ + 1,
                             !.clean = @ /\ ok]]
    /\ UNCHANGED <<envVars, enrVars, bybitTransactionFromCabinet, bybitTransaction,
                   sent, ticks>>

\* After the pacing sleep: the next cabinet, or the end of the loop.
NextCabinet(cy) ==
    IF cy.ui < Len(cy.users)
    THEN [cy EXCEPT !.pc = "cabinet", !.ui = @ + 1]
    ELSE [cy EXCEPT !.pc = "done"]

\* sleep(1000) between two cabinets.
CabSleep(c) ==
    /\ cyc[c].pc = "csleep"
    /\ cyc' = [cyc EXCEPT ![c] = NextCabinet([cyc[c] EXCEPT !.slept = @ + 1])]
    /\ UNCHANGED <<envVars, enrVars, bybitTransactionFromCabinet, bybitTransaction,
                   userStatus, sent, faults, ticks, lastRun>>

\* syncAllBybitCabinets returns.
CabCycleEnd(c) ==
    /\ deployed = "cabinets"
    /\ cyc[c].pc = "done"
    /\ cyc' = [cyc EXCEPT ![c] = IdleCycle]
    /\ UNCHANGED <<envVars, enrVars, bybitTransactionFromCabinet, bybitTransaction,
                   userStatus, sent, faults, ticks, lastRun>>

\* The steps of the user service.
NextUsers ==
    \E c \in CycleIds :
        \/ Tick(c)
        \/ LoadUsers(c)
        \/ SyncUser(c)
        \/ Fetch(c)
        \/ Lookup(c)
        \/ Create(c)
        \/ WriteStatus(c)
        \/ Sleep(c)
        \/ CycleEnd(c)

\* The steps of the cabinet service.
NextCabinets ==
    \E c \in CycleIds :
        \/ CabTick(c)
        \/ LoadCabinets(c)
        \/ SyncCabinet(c)
        \/ CabFetch(c)
        \/ CabLookup(c)
        \/ CabCreate(c)
        \/ CabUpdate(c)
        \/ CabWriteStatus(c)
        \/ CabSleep(c)
        \/ CabCycleEnd(c)

Next == NextUsers \/ NextCabinets

Spec == Init /\ [][Next]_vars

\* ------------------------------------------------------------------------
\* The two-page scenario: the windowed query of user 1 has one full page
\* and E2ETail more completed sales, all with different ids.
\* ------------------------------------------------------------------------
E2ECount == PageSize1 + E2ETail

E2EFeed ==
    Feed([k \in 1..E2ECount |-> Raw(k, 0, SideSell, StatusCompleted, 1, 1, 1)],
         E2ECount)

InitE2E ==
    /\ deployed = "users"
    /\ users = [u \in Users |-> Cred("key", "secret")]
    /\ upstream = [u \in Users |-> IF u = 1 THEN E2EFeed ELSE OtherFeed]
    /\ dateInRange = TRUE
    /\ bybitTransactionFromCabinet = <<>>
    /\ InitRest

SpecE2E == InitE2E /\ [][NextUsers]_vars

\* ------------------------------------------------------------------------
\* The interval timer of start(): setInterval calls syncAllUsers every
\* syncIntervalTime and does not wait for the previous call to return.
\* ------------------------------------------------------------------------
OverlapFeeds ==
    { Feed(<<SellOne>>, 1), Feed(<<SellOne>>, 0), Feed(<<SellOne, SellOne>>, 2) }

\* start() has run its first sync against an exchange that had no trades
\* and has installed the timer; the trades have appeared since.
InitOverlap ==
    /\ deployed = "users"
    /\ users \in { us \in [Users -> CredChoices] : us[1] = Cred("key", "secret") }
    /\ upstream \in { up \in [Users -> OverlapFeeds] : up[2] = OtherFeed }
    /\ dateInRange = TRUE
    /\ bybitTransactionFromCabinet = <<>>
    /\ InitRest

\* The timer callback: it enters syncAllUsers whether or not an earlier
\* call is still suspended at an await.
TimerTick(c) ==
    /\ deployed = "users"
    /\ LeastIdle(c)
    /\ ticks < MaxTicks
    /\ ticks' = ticks + 1
    /\ cyc' = [cyc EXCEPT ![c] = [IdleCycle EXCEPT !.pc = "loadUsers"]]
    /\ UNCHANGED <<envVars, enrVars, bybitTransactionFromCabinet, bybitTransaction,
                   userStatus, sent, faults, lastRun>>

NextOverlap ==
    \E c \in CycleIds :
        \/ TimerTick(c)
        \/ LoadUsers(c)
        \/ SyncUser(c)
        \/ Fetch(c)
        \/ Lookup(c)
        \/ Create(c)
        \/ WriteStatus(c)
        \/ Sleep(c)
        \/ CycleEnd(c)

SpecOverlap == InitOverlap /\ [][NextOverlap]_vars

\* ------------------------------------------------------------------------
\* extractPhoneNumbers (src/unnamed/part_000)
\* ------------------------------------------------------------------------
\* A text is a sequence of one-character strings.
DigitChars == {"0", "1", "2", "3", "4", "5", "6", "7", "8", "9"}

\* The character classes the five patterns are built from.
InClass(ch, cls) ==
    CASE cls = "d"     -> ch \in DigitChars
      [] cls = "ws"    -> ch = " "
      [] cls = "sep"   -> ch \in {" ", "-"}
      [] cls = "lp"    -> ch = "("
      [] cls = "rp"    -> ch = ")"
      [] cls = "plus"  -> ch = "+"
      [] cls = "seven" -> ch = "7"
      [] cls = "eight" -> ch = "8"

\* One element of a pattern: a class, optional ("?") or not.
El(cls, opt) == [cls |-> cls, opt |-> opt]
Digits(n) == [k \in 1..n |-> El("d", FALSE)]

\* \(?(\d{3})\)?[\s-]?(\d{3})[\s-]?(\d{2})[\s-]?(\d{2})
GroupedTail ==
    <<El("lp", TRUE)>> \o Digits(3) \o <<El("rp", TRUE), El("sep", TRUE)>>
      \o Digits(3) \o <<El("sep", TRUE)>> \o Digits(2)
      \o <<El("sep", TRUE)>> \o Digits(2)

phonePatterns ==
    << <<El("plus", FALSE), El("seven", FALSE), El("ws", TRUE)>> \o GroupedTail,
       <<El("plus", FALSE), El("seven", FALSE), El("ws", TRUE)>> \o Digits(10),
       <<El("eight", FALSE), El("ws", TRUE)>> \o GroupedTail,
       <<El("eight", FALSE), El("ws", TRUE)>> \o Digits(10),
       Digits(3) \o <<El("sep", TRUE)>> \o Digits(3) \o <<El("sep", TRUE)>>
         \o Digits(2) \o <<El("sep", TRUE)>> \o Digits(2) >>

\* The match of pattern pat that starts at position p, element k onwards.
\* The class of an optional element shares no character with the element
\* after it, so taking it whenever it fits finds the match if there is one.
RECURSIVE Walk(_, _, _, _, _)
Walk(text, p, pat, k, digits) ==
    IF k > Len(pat) THEN [ok |-> TRUE, end |-> p, digits |-> digits]
    ELSE IF p <= Len(text) /\ InClass(text[p], pat[k].cls)
    THEN Walk(text, p + 1, pat, k + 1,
              IF pat[k].cls = "d" THEN Append(digits, text[p]) ELSE digits)
    ELSE IF pat[k].opt THEN Walk(text, p, pat, k + 1, digits)
    ELSE [ok |-> FALSE, end |-> p, digits |-> <<>>]

\* while ((match = pattern.exec(text)) !== null): the captured digits of
\* the successive leftmost matches from position from on.
RECURSIVE ScanFrom(_, _, _)
ScanFrom(text, from, pat) ==
    IF from > Len(text) THEN {}
    ELSE LET m == Walk(text, from, pat, 1, <<>>)
         IN IF m.ok THEN {m.digits} \cup ScanFrom(text, m.end, pat)
            ELSE ScanFrom(text, from + 1, pat)

\* A format that writes the national prefix.
FormatNational(digits) == <<"8">> \o digits

\* `+7${match[1]}${match[2]}${match[3]}${match[4]}` with every character
\* other than a digit or "+" removed.
FormatPhone(digits) ==
    LET Keep(ch) == ch \in DigitChars \cup {"+"}
    IN SelectSeq(<<"+", "7">> \o digits, Keep)

\* An extractor that reads every message, whatever its contentType.
extractFromEveryMessage(messages) ==
    UNION { UNION { { FormatPhone(d) :
                        d \in { x \in ScanFrom(messages[m].message, 1,
                                               phonePatterns[q]) :
                                  Len(FormatPhone(x)) = 12 } } :
                    q \in 1..Len(phonePatterns) } :
            m \in { n \in 1..Len(messages) : messages[n].message # <<>> } }

extractPhoneNumbers(messages) ==
    UNION { UNION { { FormatPhone(d) :
                        d \in { x \in ScanFrom(messages[m].message, 1,
                                               phonePatterns[q]) :
                                  Len(FormatPhone(x)) = 12 } } :
                    q \in 1..Len(phonePatterns) } :
            m \in { n \in 1..Len(messages) :
                      /\ messages[n].contentType = "str"
                      /\ messages[n].message # <<>> } }

\* ------------------------------------------------------------------------
\* The passes over the unprocessed transactions (src/unnamed/part_000):
\* deployed = "earlier" is the service whose processUnprocessedTransactions
\* selects the transactions without a BybitOrderInfo record;
\* deployed = "cabinets" is the service whose processing timer runs
\* processUnprocessedTransactions and then
\* processUnprocessedCabinetTransactions.
\* ------------------------------------------------------------------------
Msg(contentType, text) == [contentType |-> contentType, message |-> text]

PhoneText ==
    <<"8", " ", "(", "9", "1", "2", ")", " ", "3", "4", "5", "-", "6", "7",
      "-", "8", "9">>

ChatChoices ==
    { <<>>, <<Msg("str", PhoneText)>>, <<Msg("pic", PhoneText)>>,
      <<Msg("str", <<"o", "k">>)>> }

\* A field of a record, undefined when the record does not have it.
Field(r, f) == IF f \in DOMAIN r THEN r[f] ELSE "undefined"

Missing(v) == v \in {"null", "", "undefined"}

\* The account rows the passes read through include: the rows of the
\* synchronisation, and one whose schema also has a bybitApiKey column.
EnrCreds ==
    { Cred("key", "secret"), Cred("null", "secret"),
      [bybitApiToken |-> "key", bybitApiSecret |-> "secret",
       bybitApiKey |-> "key"] }

TableRows(table) ==
    IF table = "user" THEN bybitTransaction ELSE bybitTransactionFromCabinet

OwnerOf(row, table) == IF table = "user" THEN row.userId ELSE row.cabinetId

\* The where clause of findMany: BybitOrderInfo null in the earlier
\* service, processed false in the later one.
Unprocessed(table) ==
    IF deployed = "earlier"
    THEN { i \in 1..Len(TableRows(table)) :
             \A k \in 1..Len(bybitOrderInfo) :
               bybitOrderInfo[k].bybitTransactionId # i }
    ELSE { i \in 1..Len(TableRows(table)) : ~TableRows(table)[i].processed }

\* A loop body without the key check.
ChecksNoKeys(table, cred) == FALSE

\* The key check at the head of the loop body.
SkipsForKeys(table, cred) ==
    IF deployed = "earlier" \/ table = "cabinet"
    THEN Missing(Field(cred, "bybitApiToken"))
           \/ Missing(Field(cred, "bybitApiSecret"))
    ELSE Missing(Field(cred, "bybitApiKey"))
           \/ Missing(Field(cred, "bybitApiSecret"))

\* The second argument of getChatMessages.
ChatArg(table, cred) ==
    IF deployed = "earlier" THEN cred
    ELSE IF table = "cabinet"
    THEN [bybitApiKey |-> Field(cred, "bybitApiToken"),
          bybitApiSecret |-> Field(cred, "bybitApiSecret")]
    ELSE [bybitApiKey |-> Field(cred, "bybitApiKey"),
          bybitApiSecret |-> Field(cred, "bybitApiSecret")]

\* getChatMessages: the parser is built from user.bybitApiToken; a thrown
\* request, a rejected one and a request without key all give [].
getChatMessages(orderId, user, net) ==
    IF net = "ok" /\ ~Missing(Field(user, "bybitApiToken"))
    THEN chat[orderId]
    ELSE <<>>

\* The end of the pass over one table.
EnrAfterTable(e) ==
    IF deployed = "cabinets" /\ e.table = "user"
    THEN [e EXCEPT !.pc = "load", !.table = "cabinet", !.list = <<>>, !.i = 0]
    ELSE [e EXCEPT !.pc = "idle"]

RECURSIVE NextEnrIdx(_, _, _)
NextEnrIdx(list, i, table) ==
    IF i > Len(list) THEN i
    ELSE IF ~SkipsForKeys(table, users[OwnerOf(TableRows(table)[list[i]], table)])
    THEN i
    ELSE NextEnrIdx(list, i + 1, table)

\* Continue the loop over the selected transactions at position i.
EnrLoopFrom(e, i) ==
    LET k == NextEnrIdx(e.list, i, e.table)
    IN IF k > Len(e.list) THEN EnrAfterTable([e EXCEPT !.i = k])
       ELSE [e EXCEPT !.i = k, !.pc = "time", !.parser = NewParser,
                      !.msgs = <<>>, !.phones = {}, !.err = "none"]

CurIdx == enr.list[enr.i]
CurRow == TableRows(enr.table)[CurIdx]

\* The timer callback (or the tail of syncAllUsers in the earlier service)
\* enters processUnprocessedTransactions.
EnrTick ==
    /\ deployed \in {"earlier", "cabinets"}
    /\ enr.pc = "idle"
    /\ ticks < MaxTicks
    /\ ticks' = ticks + 1
    /\ enr' = [IdleEnr EXCEPT !.pc = "load", !.table = "user"]
    /\ UNCHANGED <<envVars, chat, bybitOrderInfo, bybitTransaction,
                   bybitTransactionFromCabinet, userStatus, cyc, sent, faults,
                   lastRun>>

\* findMany of the unprocessed transactions of the table, and the loop
\* head for the first of them.
EnrLoad ==
    /\ enr.pc = "load"
    /\ \E ok \in BOOLEAN :
         /\ ~ok => MayFail
         /\ Fault(~ok)
         /\ enr' =
              IF ok
              THEN EnrLoopFrom(
                     [enr EXCEPT !.list = SeqOfSet(Unprocessed(enr.table)),
                                 !.atStart = @ \cup
                                    { <<enr.table, i>> : i \in Unprocessed(enr.table) }],
                     1)
              ELSE EnrAfterTable([enr EXCEPT !.storeFault = TRUE])
    /\ UNCHANGED <<envVars, chat, bybitOrderInfo, bybitTransaction,
                   bybitTransactionFromCabinet, userStatus, cyc, sent, ticks,
                   lastRun>>

\* p2pRequest, first await: the parser is new, so syncTime is awaited;
\* syncTime swallows its own failure.
EnrSyncTime ==
    /\ enr.pc = "time"
    /\ \E outcome \in {"ok", "malformed", "throw"} :
         /\ outcome # "ok" => MayFail
         /\ Fault(outcome # "ok")
         /\ enr' = [enr EXCEPT !.pc = "chat",
                               !.parser = syncTime(NewParser, outcome)]
    /\ sent' = sent \cup {[kind |-> "time", synced |-> FALSE]}
    /\ UNCHANGED <<envVars, chat, bybitOrderInfo, bybitTransaction,
                   bybitTransactionFromCabinet, userStatus, cyc, ticks,
                   lastRun>>

\* p2pRequest, second await: the signed request is sent whatever syncTime
\* achieved; then the code of the loop body up to its next store call.
EnrChat ==
    /\ enr.pc = "chat"
    /\ \E net \in {"ok", "apiError", "throw"} :
         /\ net # "ok" => MayFail
         /\ Fault(net # "ok")
         /\ LET user == ChatArg(enr.table, users[OwnerOf(CurRow, enr.table)])
                msgs == getChatMessages(CurRow.orderNo, user, net)
                phones == IF Len(msgs) > 0 THEN extractPhoneNumbers(msgs) ELSE {}
                e == [enr EXCEPT !.msgs = msgs, !.phones = phones,
                                 !.threw = IF net = "throw"
                                           THEN @ \cup {<<enr.table, CurIdx>>}
                                           ELSE @]
            IN enr' =
                 IF deployed = "earlier"
                 THEN IF Len(msgs) = 0 \/ phones = {}
                      THEN EnrLoopFrom(e, enr.i + 1)
                      ELSE [e EXCEPT !.pc = "info"]
                 ELSE IF enr.table = "user" THEN [e EXCEPT !.pc = "info"]
                 ELSE [e EXCEPT !.pc = "mark"]
    /\ sent' = sent \cup {[kind |-> "chat",
                           synced |-> enr.parser.timeSyncComplete]}
    /\ UNCHANGED <<envVars, chat, bybitOrderInfo, bybitTransaction,
                   bybitTransactionFromCabinet, userStatus, cyc, ticks,
                   lastRun>>

\* bybitOrderInfo.create
EnrInfo ==
    /\ enr.pc = "info"
    /\ \E ok \in BOOLEAN :
         /\ ~ok => MayFail
         /\ Fault(~ok)
         /\ bybitOrderInfo' =
              IF ok
              THEN Append(bybitOrderInfo,
                          [orderNo |-> CurRow.orderNo, userId |-> CurRow.userId,
                           phoneNumbers |-> enr.phones,
                           bybitTransactionId |->
                              IF deployed = "earlier" THEN CurIdx ELSE 0])
              ELSE bybitOrderInfo
         /\ enr' =
              IF deployed = "earlier"
              THEN IF ok THEN [enr EXCEPT !.pc = "sleep"]
                   ELSE EnrLoopFrom([enr EXCEPT !.storeFault = TRUE], enr.i + 1)
              ELSE IF ok THEN [enr EXCEPT !.pc = "mark"]
                   ELSE [enr EXCEPT !.pc = "error", !.err = "create",
                                    !.storeFault = TRUE]
    /\ UNCHANGED <<envVars, chat, bybitTransaction,
                   bybitTransactionFromCabinet, userStatus, cyc, sent, ticks,
                   lastRun>>

\* The update that sets processed (and, for a cabinet transaction with
\* messages, extractedPhones).
EnrMark ==
    /\ enr.pc = "mark"
    /\ \E ok \in BOOLEAN :
         /\ ~ok => MayFail
         /\ Fault(~ok)
         /\ bybitTransaction' =
              IF ok /\ enr.table = "user"
              THEN [bybitTransaction EXCEPT ![CurIdx].processed = TRUE]
              ELSE bybitTransaction
         /\ bybitTransactionFromCabinet' =
              IF ok /\ enr.table = "cabinet"
              THEN [bybitTransactionFromCabinet EXCEPT
                      ![CurIdx].processed = TRUE,
                      ![CurIdx].extractedPhones =
                          IF Len(enr.msgs) > 0 THEN enr.phones ELSE @]
              ELSE bybitTransactionFromCabinet
         /\ enr' = IF ok THEN [enr EXCEPT !.pc = "sleep"]
                   ELSE [enr EXCEPT !.pc = "error", !.err = "update",
                                    !.storeFault = TRUE]
    /\ UNCHANGED <<envVars, chat, bybitOrderInfo, userStatus, cyc, sent,
                   ticks, lastRun>>

\* The update of lastAttemptError in the catch of the loop body; when it
\* fails itself, the catch around the whole pass ends the pass.
EnrError ==
    /\ enr.pc = "error"
    /\ \E ok \in BOOLEAN :
         /\ ~ok => MayFail
         /\ Fault(~ok)
         /\ bybitTransaction' =
              IF ok /\ enr.table = "user"
              THEN [bybitTransaction EXCEPT ![CurIdx].lastAttemptError = enr.err]
              ELSE bybitTransaction
         /\ bybitTransactionFromCabinet' =
              IF ok /\ enr.table = "cabinet"
              THEN [bybitTransactionFromCabinet EXCEPT
                      ![CurIdx].lastAttemptError = enr.err]
              ELSE bybitTransactionFromCabinet
         /\ enr' = IF ok THEN EnrLoopFrom(enr, enr.i + 1)
                   ELSE EnrAfterTable(enr)
    /\ UNCHANGED <<envVars, chat, bybitOrderInfo, userStatus, cyc, sent,
                   ticks, lastRun>>

\* The pause after a processed transaction.
EnrSleep ==
    /\ enr.pc = "sleep"
    /\ enr' = EnrLoopFrom(enr, enr.i + 1)
    /\ UNCHANGED <<envVars, chat, bybitOrderInfo, bybitTransaction,
                   bybitTransactionFromCabinet, userStatus, cyc, sent, faults,
                   ticks, lastRun>>

\* Two unprocessed sales in each table, as the synchronisation stores them.
SellTwo == Raw(2, 0, SideSell, StatusCompleted, 1, 1, 1)

InitEnrich ==
    /\ deployed \in {"earlier", "cabinets"}
    /\ users \in [Users -> EnrCreds]
    /\ upstream = [u \in Users |-> OtherFeed]
    /\ dateInRange = TRUE
    /\ bybitTransaction = <<UserRow(SellOne, 1), UserRow(SellTwo, 2)>>
    /\ bybitTransactionFromCabinet =
         IF deployed = "cabinets"
         THEN <<CabinetRow(SellOne, 1), CabinetRow(SellTwo, 2)>>
         ELSE <<>>
    /\ chat \in [{1, 2} -> ChatChoices]
    /\ bybitOrderInfo = <<>>
    /\ enr = IdleEnr
    /\ call = NoCall
    /\ boot = Started
    /\ userStatus = [u \in Users |-> NoStatus]
    /\ cyc = [c \in CycleIds |-> IdleCycle]
    /\ sent = {}
    /\ faults = 0
    /\ ticks = 0
    /\ lastRun = [u \in Users |-> NoRun]

NextEnrich ==
    \/ EnrTick
    \/ EnrLoad
    \/ EnrSyncTime
    \/ EnrChat
    \/ EnrInfo
    \/ EnrMark
    \/ EnrError
    \/ EnrSleep

SpecEnrich == InitEnrich /\ [][NextEnrich]_vars

\* ------------------------------------------------------------------------
\* Direct calls of the exchange client (src/bybit.ts)
\* ------------------------------------------------------------------------
\* Bound on the length of a list handed to the client's pure functions.
MaxTxLen == 2

Has(r, f) == f \in DOMAIN r

\* parseFloat(x || 0) of a numeric field: absent fields read as 0.
NumField(r, f) == IF Has(r, f) THEN r[f] ELSE 0

\* Upstream order records as the client's aggregation reads them.  One has
\* no tokenId and one an empty tokenId.
ClientTxs ==
    { [side |-> s, tokenId |-> c, amount |-> a, price |-> 3] :
        s \in {SideBuy, SideSell}, c \in {"USDT", "BTC"}, a \in {1, 2} }
    \cup { [side |-> SideBuy, amount |-> 1, price |-> 3],
           [side |-> SideSell, tokenId |-> "", amount |-> 2, price |-> 3] }

ClientLists == BoundedSeq(ClientTxs, MaxTxLen)

ZeroSide == [count |-> 0, volume |-> 0]

ZeroSummary == [buy |-> ZeroSide, sell |-> ZeroSide]

ZeroCoinSide == [count |-> 0, volume |-> 0, tokenVolume |-> 0]

ZeroCoin == [buy |-> ZeroCoinSide, sell |-> ZeroCoinSide]

\* tx.side === 0 ? 'buy' : 'sell'
OrderTypeOf(tx) == IF Has(tx, "side") /\ tx.side = 0 THEN "buy" ELSE "sell"

\* tx.tokenId || ''
CoinOf(tx) == IF Has(tx, "tokenId") THEN tx.tokenId ELSE ""

\* A loop that skips no record.
SkipsNone(tx) == FALSE

\* The records the loop skips: if (!coin) return.
SkipsTx(tx) == CoinOf(tx) = ""

\* The forEach of processTransactions from record i on; acc holds summary
\* and byCoin.
RECURSIVE Aggregate(_, _, _)
Aggregate(txs, i, acc) ==
    IF i > Len(txs) THEN acc
    ELSE LET tx         == txs[i]
             orderType  == OrderTypeOf(tx)
             coin       == CoinOf(tx)
             amount     == NumField(tx, "amount")
             price      == NumField(tx, "price")
             fiatAmount == price * amount
             base       == IF coin \in DOMAIN acc.byCoin THEN acc.byCoin
                           ELSE acc.byCoin @@ (coin :> ZeroCoin)
         IN  IF SkipsTx(tx) THEN Aggregate(txs, i + 1, acc)
             ELSE Aggregate(txs, i + 1,
                    [summary |->
                       [acc.summary EXCEPT
                          ![orderType] = [count  |-> @.count + 1,
                                          volume |-> @.volume + fiatAmount]],
                     byCoin |->
                       [base EXCEPT
                          ![coin][orderType] =
                             [count       |-> @.count + 1,
                              volume      |-> @.volume + fiatAmount,
                              tokenVolume |-> @.tokenVolume + amount]]])

NoCoins == [c \in {} |-> ZeroCoin]

processTransactions(transactions) ==
    LET acc == Aggregate(transactions, 1,
                         [summary |-> ZeroSummary, byCoin |-> NoCoins])
    IN  [totalCount |-> Len(transactions), summary |-> acc.summary,
         byCoin |-> acc.byCoin, transactions |-> transactions]

\* What a request can come back with: a thrown exception with its message,
\* no body at all, or a body.  Bodies carry the result code and the message
\* under the names the client's ApiResponse declares (ret_code, ret_msg) or
\* in camel case (retCode, retMsg).
DefaultFailure == "Failed to fetch P2P orders"

NotSyncedMessage ==
    "Time synchronization required before making API requests."

Thrown(m) == [kind |-> "throw", message |-> m]

Body(b) == [kind |-> "body", body |-> b]

ErrorBodies ==
    { [ret_code |-> 10001, ret_msg |-> "API key invalid"],
      [ret_code |-> 10001],
      [ret_code |-> 10001, ret_msg |-> ""],
      [retCode |-> 10001, retMsg |-> "API key invalid"] }

ItemBodies(items) ==
    { [ret_code |-> 0, ret_msg |-> "SUCCESS", result |-> [items |-> items]],
      [retCode |-> 0, retMsg |-> "OK", result |-> [items |-> items]] }

Replies ==
    { Thrown("Network error"), Thrown("timeout of 10000ms exceeded"),
      [kind |-> "nobody"], Body([ret_code |-> 0]) }
    \cup { Body(b) : b \in ErrorBodies }
    \cup UNION { { Body(b) : b \in ItemBodies(items) } : items \in ClientLists }

\* makeRequest as getAllOrders awaits it: the value returned, or the
\* exception thrown.
makeRequest(p, reply) ==
    IF ~MakeRequestSends(p) THEN Thrown(NotSyncedMessage)
    ELSE reply

\* response.result?.items || []
ItemsOf(b) ==
    IF Has(b, "result") /\ Has(b.result, "items") THEN b.result.items
    ELSE <<>>

\* A catch block that lets the exception go on to the caller.
Rethrow(m) == [success |-> FALSE, message |-> m, threw |-> TRUE]

Failure(m) == [success |-> FALSE, message |-> m, threw |-> FALSE]

\* getAndProcessAllOrders with the whole result: threw says whether the
\* call ends in an exception instead of a returned value.
getAndProcessAllOrdersResult(p, reply) ==
    LET response == makeRequest(p, reply)
    IN  CASE response.kind = "throw"  -> Failure(response.message)
          [] response.kind = "nobody" ->
               Failure("Cannot read properties of undefined")
          [] OTHER ->
               LET b == response.body
               IN  IF Has(b, "ret_code") /\ b.ret_code = 0
                   THEN [success |-> TRUE,
                         data |-> processTransactions(ItemsOf(b)),
                         threw |-> FALSE]
                   ELSE IF Has(b, "ret_msg") /\ b.ret_msg # ""
                        THEN Failure(b.ret_msg) @@ [rawResponse |-> b]
                        ELSE Failure(DefaultFailure) @@ [rawResponse |-> b]

\* The status text of exportToMatchingFormat.
ExportStatusText(code) ==
    CASE code = 5   -> "Waiting for chain"
      [] code = 10  -> "Waiting for payment"
      [] code = 20  -> "Waiting for release"
      [] code = 30  -> "Appealing"
      [] code = 40  -> "Cancelled"
      [] code = 50  -> "Completed"
      [] code = 60  -> "Paying"
      [] code = 70  -> "Payment failed"
      [] code = 80  -> "Exception cancelled"
      [] code = 90  -> "Waiting selection"
      [] code = 100 -> "Objecting"
      [] code = 110 -> "Waiting objection"
      [] OTHER      -> "Unknown"

\* The codes of the export's table.
ExportTable == {5, 10, 20, 30, 40, 50, 60, 70, 80, 90, 100, 110}

\* The status codes handed to the normalisers: the table, the further code
\* of the cabinet transform, and two codes of no table.
StatusCodes == ExportTable \cup {0, 7, 120}

\* One status code goes through the normalisation paths: the export of the
\* client, the cabinet transform, and the user synchronisation, which
\* stores the literal "Completed" for the only code it lets through.
CallStatusText ==
    /\ call.op = "statusText"
    /\ call.pc = "ready"
    /\ call' = [call EXCEPT
                  !.pc = "done",
                  !.result =
                     [export  |-> ExportStatusText(call.arg),
                      cabinet |-> CabinetStatusText(call.arg),
                      user    |-> IF call.arg = StatusCompleted
                                  THEN UserRow([SellOne EXCEPT
                                                  !.status = call.arg],
                                               1).status
                                  ELSE "none"]]
    /\ UNCHANGED <<deployed, users, upstream, dateInRange, bybitTransaction,
                   bybitTransactionFromCabinet, userStatus, cyc, sent, faults,
                   ticks, lastRun, chat, bybitOrderInfo, enr, boot>>

\* The orders handed to the export: with a createDate in milliseconds, or
\* without one, as the records of the tests are.
ExportTxs ==
    { [id |-> 1, createDate |-> "1617985776000", side |-> SideSell,
       status |-> StatusCompleted, amount |-> 3, price |-> 2],
      [id |-> 2, createDate |-> "1617985776000", side |-> SideBuy,
       status |-> StatusCancelled, amount |-> 1, price |-> 5],
      [id |-> 3, side |-> SideSell, status |-> StatusCompleted,
       amount |-> 3, price |-> 2] }

ExportLists == BoundedSeq(ExportTxs, MaxTxLen)

\* new Date(parseInt(tx.createDate)).toISOString() throws a RangeError when
\* the field is absent.
InvalidDate(tx) == ~Has(tx, "createDate")

\* One CSV row of the export.
ExportRow(tx) ==
    [id |-> tx.id, orderNo |-> tx.id, status |-> ExportStatusText(tx.status),
     amount |-> tx.amount, unitPrice |-> tx.price,
     totalPrice |-> tx.amount * tx.price,
     type |-> IF tx.side = 0 THEN "Buy" ELSE "Sell"]

\* A write whose exception goes on to the caller.
UncaughtWrite(content, fsOk) ==
    [value |-> fsOk, threw |-> ~fsOk, writes |-> 1,
     file |-> IF fsOk THEN content ELSE <<>>]

\* try { fs.writeFileSync(...); return true } catch { return false }
WriteFile(content, fsOk) ==
    [value |-> fsOk, threw |-> FALSE, writes |-> 1,
     file |-> IF fsOk THEN content ELSE <<>>]

\* exportToMatchingFormat: the value returned, whether the call threw
\* instead, the number of writeFileSync calls and the content written.
exportToMatchingFormat(transactions, fsOk) ==
    IF transactions = <<>>
    THEN [value |-> FALSE, threw |-> FALSE, writes |-> 0, file |-> <<>>]
    ELSE IF \E i \in 1..Len(transactions) : InvalidDate(transactions[i])
    THEN [value |-> FALSE, threw |-> TRUE, writes |-> 0, file |-> <<>>]
    ELSE WriteFile([i \in 1..Len(transactions) |->
                      ExportRow(transactions[i])], fsOk)

\* A caller exports a list; fsOk says whether the file system takes the
\* write.
CallExportToMatchingFormat ==
    /\ call.op = "exportToMatchingFormat"
    /\ call.pc = "ready"
    /\ call' = [call EXCEPT
                  !.pc = "done",
                  !.result = exportToMatchingFormat(call.arg, call.fsOk)]
    /\ UNCHANGED <<deployed, users, upstream, dateInRange, bybitTransaction,
                   bybitTransactionFromCabinet, userStatus, cyc, sent, faults,
                   ticks, lastRun, chat, bybitOrderInfo, enr, boot>>

\* A caller hands a list to processTransactions.
CallProcessTransactions ==
    /\ call.op = "processTransactions"
    /\ call.pc = "ready"
    /\ call' = [call EXCEPT !.pc = "done",
                            !.result = processTransactions(call.arg)]
    /\ UNCHANGED <<deployed, users, upstream, dateInRange, bybitTransaction,
                   bybitTransactionFromCabinet, userStatus, cyc, sent, faults,
                   ticks, lastRun, chat, bybitOrderInfo, enr, boot>>

\* A caller asks the client for the order list.
CallGetAndProcessAllOrders ==
    /\ call.op = "getAndProcessAllOrders"
    /\ call.pc = "ready"
    /\ call' = [call EXCEPT
                  !.pc = "done",
                  !.result = getAndProcessAllOrdersResult(call.parser,
                                                          call.arg)]
    /\ UNCHANGED <<deployed, users, upstream, dateInRange, bybitTransaction,
                   bybitTransactionFromCabinet, userStatus, cyc, sent, faults,
                   ticks, lastRun, chat, bybitOrderInfo, enr, boot>>

\* The page size of the third attempt of processCompletedTransactions.
IndexMinimalSize == 5

\* The three attempts of processCompletedTransactions in the order of the
\* code: without time parameters, with a one-day window, and with the
\* status parameter only.
IndexQuery(attempt) ==
    CASE attempt = 1 -> [query |-> "unwindowed", size |-> PageSize1]
      [] attempt = 2 -> [query |-> "windowed", size |-> PageSize2]
      [] OTHER       -> [query |-> "minimal", size |-> IndexMinimalSize]

\* What the exchange serves for an attempt: page 1 of the windowed list or
\* of the whole list.
IndexItems(f, attempt) ==
    PageOf(StrategyItems(f, IF IndexQuery(attempt).query = "windowed"
                            THEN 1 ELSE 2),
           IndexQuery(attempt).size, 1)

IndexFeeds ==
    { Feed(<<>>, 0), Feed(<<SellOne>>, 0), Feed(<<SellOne>>, 1) }

\* One getAndProcessAllOrders call of processCompletedTransactions and the
\* branch after it: a non-empty page ends the chain, anything else leads to
\* the next attempt, and the third attempt ends it in any case.
IndexFetch ==
    /\ call.op = "processCompletedTransactions"
    /\ call.pc = "fetch"
    /\ \E net \in {"ok", "apiError", "throw"} :
         LET result == getAndProcessAllOrders(call.parser, net,
                                              IndexItems(call.arg, call.attempt))
             got == PageAccepted(result)
             logged == [call EXCEPT
                          !.log = Append(@, [query |-> IndexQuery(call.attempt).query,
                                             res |-> ReqKind(call.parser, result)])]
         IN call' = IF got
                    THEN [logged EXCEPT !.pc = "done",
                                        !.result = result.transactions]
                    ELSE IF call.attempt < 3
                    THEN [logged EXCEPT !.attempt = @ + 1]
                    ELSE [logged EXCEPT !.pc = "done"]
    /\ UNCHANGED <<deployed, users, upstream, dateInRange, bybitTransaction,
                   bybitTransactionFromCabinet, userStatus, cyc, sent, faults,
                   ticks, lastRun, chat, bybitOrderInfo, enr, boot>>

ClientCalls ==
    { [op |-> "processTransactions", pc |-> "ready", arg |-> txs,
       result |-> "none"] : txs \in ClientLists }
    \cup { [op |-> "getAndProcessAllOrders", pc |-> "ready", parser |-> p,
            arg |-> r, result |-> "none"] :
             p \in {NewParser, syncTime(NewParser, "ok")}, r \in Replies }
    \cup { [op |-> "statusText", pc |-> "ready", arg |-> code,
            result |-> "none"] : code \in StatusCodes }
    \cup { [op |-> "exportToMatchingFormat", pc |-> "ready", arg |-> txs,
            fsOk |-> ok, result |-> "none"] :
             txs \in ExportLists, ok \in BOOLEAN }
    \cup { [op |-> "processCompletedTransactions", pc |-> "fetch",
            parser |-> syncTime(NewParser, outcome), arg |-> f, attempt |-> 1,
            log |-> <<>>, result |-> <<>>] :
             outcome \in {"ok", "throw"}, f \in IndexFeeds }

InitClient ==
    /\ deployed = "users"
    /\ users = [u \in Users |-> Cred("key", "secret")]
    /\ upstream = [u \in Users |-> OtherFeed]
    /\ dateInRange = TRUE
    /\ bybitTransactionFromCabinet = <<>>
    /\ call \in ClientCalls
    /\ boot = Started
    /\ chat = NoChats
    /\ bybitOrderInfo = <<>>
    /\ enr = IdleEnr
    /\ bybitTransaction = <<>>
    /\ userStatus = [u \in Users |-> NoStatus]
    /\ cyc = [c \in CycleIds |-> IdleCycle]
    /\ sent = {}
    /\ faults = 0
    /\ ticks = 0
    /\ lastRun = [u \in Users |-> NoRun]

NextClient ==
    \/ CallProcessTransactions
    \/ CallGetAndProcessAllOrders
    \/ CallStatusText
    \/ CallExportToMatchingFormat
    \/ IndexFetch

SpecClient == InitClient /\ [][NextClient]_vars

\* ------------------------------------------------------------------------
\* start() and connectWithRetry (src/sync-service.ts)
\* ------------------------------------------------------------------------
dbRetryAttempts == 5

dbRetryDelay == 5000

\* The service object after its constructor.
NotStarted ==
    [pc |-> "new", isRunning |-> FALSE, syncInterval |-> FALSE,
     attempts |-> 0, connects |-> 0, slept |-> <<>>, syncRuns |-> 0]

\* A loop that never throws.
NeverGivesUp(attempts) == FALSE

\* if (attempts === this.dbRetryAttempts) throw
GivesUp(attempts) == attempts = dbRetryAttempts

\* connectWithRetry has returned: start() goes on into syncAllUsers, which
\* runs up to its first await.
EnterFirstSync(b) ==
    /\ boot' = [b EXCEPT !.pc = "firstSync", !.syncRuns = @ + 1]
    /\ cyc' = [cyc EXCEPT ![1] = [IdleCycle EXCEPT !.pc = "loadUsers"]]

\* start(): returns at once when the service runs, otherwise sets the flag
\* and enters connectWithRetry up to the first $connect.
Start ==
    /\ boot.pc = "new"
    /\ ~boot.isRunning
    /\ boot' = [boot EXCEPT !.pc = "connect", !.isRunning = TRUE]
    /\ UNCHANGED <<deployed, users, upstream, dateInRange, call, enrVars,
                   bybitTransactionFromCabinet, bybitTransaction, userStatus,
                   cyc, sent, faults, ticks, lastRun>>

\* One $connect and what follows it: the return on success; on failure the
\* count, then the throw that start() catches and rethrows, or the sleep.
Connect ==
    /\ boot.pc = "connect"
    /\ \E ok \in BOOLEAN :
         LET tried == [boot EXCEPT !.connects = @ + 1]
             attempts == boot.attempts + 1
         IN  IF ok THEN EnterFirstSync(tried)
             ELSE /\ boot' = IF GivesUp(attempts)
                             THEN [tried EXCEPT !.attempts = attempts,
                                                !.isRunning = FALSE,
                                                !.pc = "failed"]
                             ELSE [tried EXCEPT !.attempts = attempts,
                                                !.pc = "backoff"]
                  /\ UNCHANGED cyc
    /\ UNCHANGED <<deployed, users, upstream, dateInRange, call, enrVars,
                   bybitTransactionFromCabinet, bybitTransaction, userStatus,
                   sent, faults, ticks, lastRun>>

\* The sleep between two attempts ends and the loop condition is tested.
Backoff ==
    /\ boot.pc = "backoff"
    /\ LET woke == [boot EXCEPT !.slept = Append(@, dbRetryDelay)]
       IN  IF woke.attempts < dbRetryAttempts
           THEN boot' = [woke EXCEPT !.pc = "connect"] /\ UNCHANGED cyc
           ELSE EnterFirstSync(woke)
    /\ UNCHANGED <<deployed, users, upstream, dateInRange, call, enrVars,
                   bybitTransactionFromCabinet, bybitTransaction, userStatus,
                   sent, faults, ticks, lastRun>>

\* The first syncAllUsers has returned: setInterval.
ArmTimer ==
    /\ boot.pc = "firstSync"
    /\ AllIdle
    /\ boot' = [boot EXCEPT !.pc = "running", !.syncInterval = TRUE]
    /\ UNCHANGED <<deployed, users, upstream, dateInRange, call, enrVars,
                   bybitTransactionFromCabinet, bybitTransaction, userStatus,
                   cyc, sent, faults, ticks, lastRun>>

\* The callback of the timer start() has armed.
StartTick(c) == boot.syncInterval /\ Tick(c)

InitStart ==
    /\ deployed = "users"
    /\ users \in { us \in [Users -> CredChoices] : us[1] = Cred("key", "secret") }
    /\ upstream = [u \in Users |-> OtherFeed]
    /\ dateInRange = TRUE
    /\ bybitTransactionFromCabinet = <<>>
    /\ boot = NotStarted
    /\ call = NoCall
    /\ chat = NoChats
    /\ bybitOrderInfo = <<>>
    /\ enr = IdleEnr
    /\ bybitTransaction = <<>>
    /\ userStatus = [u \in Users |-> NoStatus]
    /\ cyc = [c \in CycleIds |-> IdleCycle]
    /\ sent = {}
    /\ faults = 0
    /\ ticks = 0
    /\ lastRun = [u \in Users |-> NoRun]

NextStart ==
    \/ Start
    \/ Connect
    \/ Backoff
    \/ ArmTimer
    \/ \E c \in CycleIds :
         \/ StartTick(c)
         \/ LoadUsers(c)
         \/ SyncUser(c)
         \/ Fetch(c)
         \/ Lookup(c)
         \/ Create(c)
         \/ WriteStatus(c)
         \/ Sleep(c)
         \/ CycleEnd(c)

SpecStart == InitStart /\ [][NextStart]_vars

\* ------------------------------------------------------------------------
\* Direct calls of extractPhoneNumbers (src/unnamed/part_000)
\* ------------------------------------------------------------------------
\* The digits the numbers of the calls are written with: the two that open
\* a pattern, and one that opens none.
PhoneDigits == {"7", "8", "9"}

\* The ten digits after the country code: every number written with two
\* of the three digits.
PhoneNumbers ==
    UNION { [1..10 -> (PhoneDigits \ {x})] : x \in PhoneDigits }

\* "call 8 (XXX) XXX-XX-XX"
Form8(d) ==
    <<"c", "a", "l", "l", " ", "8", " ", "(">> \o SubSeq(d, 1, 3)
      \o <<")", " ">> \o SubSeq(d, 4, 6) \o <<"-">> \o SubSeq(d, 7, 8)
      \o <<"-">> \o SubSeq(d, 9, 10)

\* "+7 XXX XXX XX XX"
FormPlus7(d) ==
    <<"+", "7", " ">> \o SubSeq(d, 1, 3) \o <<" ">> \o SubSeq(d, 4, 6)
      \o <<" ">> \o SubSeq(d, 7, 8) \o <<" ">> \o SubSeq(d, 9, 10)

\* The chats handed to the extractor for one number: either form alone,
\* and both forms in two messages.
PhoneChats(d) ==
    { <<Msg("str", Form8(d))>>, <<Msg("str", FormPlus7(d))>>,
      <<Msg("str", Form8(d)), Msg("str", FormPlus7(d))>> }

\* A caller hands the messages of a chat to extractPhoneNumbers.
CallExtractPhoneNumbers ==
    /\ call.op = "extractPhoneNumbers"
    /\ call.pc = "ready"
    /\ call' = [call EXCEPT !.pc = "done",
                            !.result = extractPhoneNumbers(call.arg)]
    /\ UNCHANGED <<deployed, users, upstream, dateInRange, bybitTransaction,
                   bybitTransactionFromCabinet, userStatus, cyc, sent, faults,
                   ticks, lastRun, chat, bybitOrderInfo, enr, boot>>

InitPhone ==
    /\ deployed = "cabinets"
    /\ users = [u \in Users |-> Cred("key", "secret")]
    /\ upstream = [u \in Users |-> OtherFeed]
    /\ dateInRange = TRUE
    /\ bybitTransactionFromCabinet = <<>>
    /\ call \in UNION { { [op |-> "extractPhoneNumbers", pc |-> "ready",
                             digits |-> d, arg |-> msgs, result |-> {}] :
                              msgs \in PhoneChats(d) } :
                          d \in PhoneNumbers }
    /\ boot = Started
    /\ chat = NoChats
    /\ bybitOrderInfo = <<>>
    /\ enr = IdleEnr
    /\ bybitTransaction = <<>>
    /\ userStatus = [u \in Users |-> NoStatus]
    /\ cyc = [c \in CycleIds |-> IdleCycle]
    /\ sent = {}
    /\ faults = 0
    /\ ticks = 0
    /\ lastRun = [u \in Users |-> NoRun]

NextPhone == CallExtractPhoneNumbers

\* Texts of chat messages: a number with the national prefix, a number in
\* the international form, both without separators as well, a run of
\* twelve digits, a number cut short, and a text without digits.
PlusText == <<"+", "7", "9", "0", "0", "1", "2", "3", "4", "5", "6", "7">>

LongRun == <<"8", "9", "0", "1", "2", "3", "4", "5", "6", "7", "8", "9">>

ShortText == <<"8", " ", "9", "1", "2", " ", "3", "4", "5", " ", "6", "7">>

\* The number of PlusText written "8XXXXXXXXXX".
EightText == <<"8">> \o SubSeq(PlusText, 3, 12)

FormatTexts ==
    { PhoneText, PlusText, EightText, LongRun, ShortText, <<"o", "k">> }

\* Messages of the chat API: text messages ("str") and pictures.
FormatMessages == { Msg(ct, t) : ct \in {"str", "pic"}, t \in FormatTexts }

\* The longest chat handed to the extractor.
MaxChatLen == 2

FormatChats == BoundedSeq(FormatMessages, MaxChatLen)

InitFormat ==
    /\ deployed = "cabinets"
    /\ users = [u \in Users |-> Cred("key", "secret")]
    /\ upstream = [u \in Users |-> OtherFeed]
    /\ dateInRange = TRUE
    /\ bybitTransactionFromCabinet = <<>>
    /\ call \in { [op |-> "extractPhoneNumbers", pc |-> "ready",
                    arg |-> msgs, result |-> {}] : msgs \in FormatChats }
    /\ boot = Started
    /\ chat = NoChats
    /\ bybitOrderInfo = <<>>
    /\ enr = IdleEnr
    /\ bybitTransaction = <<>>
    /\ userStatus = [u \in Users |-> NoStatus]
    /\ cyc = [c \in CycleIds |-> IdleCycle]
    /\ sent = {}
    /\ faults = 0
    /\ ticks = 0
    /\ lastRun = [u \in Users |-> NoRun]

SpecFormat == InitFormat /\ [][NextPhone]_vars

SpecPhone == InitPhone /\ [][NextPhone]_vars

\* ------------------------------------------------------------------------
\* The page cap: the list of user 1 holds one record more than ten pages
\* of a strategy, inside the window for strategy 1 or outside it for
\* strategy 2.
\* ------------------------------------------------------------------------
CapFeed(size, windowed) ==
    Feed([k \in 1..(PageCap * size + 1) |-> SellOne],
         IF windowed THEN PageCap * size + 1 ELSE 0)

CapFeeds == { CapFeed(PageSize1, TRUE), CapFeed(PageSize2, FALSE) }

InitCap ==
    /\ deployed = "users"
    /\ users = [u \in Users |-> IF u = 1 THEN Cred("key", "secret")
                                ELSE Cred("null", "secret")]
    /\ upstream \in { up \in [Users -> CapFeeds \cup {OtherFeed}] :
                        up[1] \in CapFeeds /\ up[2] = OtherFeed }
    /\ dateInRange = TRUE
    /\ bybitTransactionFromCabinet = <<>>
    /\ InitRest

SpecCap == InitCap /\ [][NextUsers]_vars

\* ------------------------------------------------------------------------
\* Synchronisation and enrichment over accounts with and without keys: each
\* account has one sale on the exchange, and each table holds the two
\* unprocessed sales of an earlier synchronisation.
\* ------------------------------------------------------------------------
CredAccounts == CredChoices \cup EnrCreds

\* What the exchange holds for each account here: an order whose row was
\* written before it completed, and a second order.
CredFeed == Feed(<<SellOne, SellTwo>>, 2)

InitCreds ==
    /\ deployed \in {"users", "earlier", "cabinets"}
    /\ users \in [Users -> CredAccounts]
    /\ upstream = [u \in Users |-> CredFeed]
    /\ dateInRange = TRUE
    /\ bybitTransaction = <<UserRow(SellOne, 1), UserRow(SellTwo, 2)>>
    /\ bybitTransactionFromCabinet =
         IF deployed = "cabinets" THEN <<OldCabinetRow>> ELSE <<>>
    /\ chat = NoChats
    /\ bybitOrderInfo = <<>>
    /\ enr = IdleEnr
    /\ call = NoCall
    /\ boot = Started
    /\ userStatus = [u \in Users |-> NoStatus]
    /\ cyc = [c \in CycleIds |-> IdleCycle]
    /\ sent = {}
    /\ faults = 0
    /\ ticks = 0
    /\ lastRun = [u \in Users |-> NoRun]

NextCreds == Next \/ NextEnrich

SpecCreds == InitCreds /\ [][NextCreds]_vars

\* ------------------------------------------------------------------------
\* start() and stop() called in any order (src/sync-service.ts 43-99,
\* src/unnamed/part_000 691-765).  boot holds the fields of the service
\* object, the timers that are armed, and the calls made so far with the
\* await each one is suspended at.  connectWithRetry and the first
\* synchronisation are one await each here: neither touches isRunning or
\* the timers before it returns.
\* ------------------------------------------------------------------------
\* The number of start() and stop() calls made on the service object.
MaxLifeCalls == 3

\* The timers start() arms: one in the user service, two in the later one.
TimerKinds ==
    IF deployed = "users" THEN {"sync"} ELSE {"sync", "processing"}

NewService ==
    [isRunning |-> FALSE, syncInterval |-> 0, processingInterval |-> 0,
     live |-> {}, calls |-> <<>>, cycles |-> 0, lateCycle |-> FALSE]

LifeCall(op, pc) == [op |-> op, pc |-> pc]

StartInProgress ==
    \E k \in 1..Len(boot.calls) :
      boot.calls[k].op = "start" /\ boot.calls[k].pc \in {"connect", "sync"}

LifeFrame ==
    UNCHANGED <<deployed, users, upstream, dateInRange, call, enrVars,
                bybitTransactionFromCabinet, bybitTransaction, userStatus,
                cyc, sent, faults, ticks, lastRun>>

\* start() up to its first await: the return when the service runs, or
\* isRunning = true and the entry into connectWithRetry.
LifeStart ==
    /\ Len(boot.calls) < MaxLifeCalls
    /\ boot' = IF boot.isRunning
               THEN [boot EXCEPT !.calls = Append(@, LifeCall("start", "returned"))]
               ELSE [boot EXCEPT !.isRunning = TRUE,
                                 !.calls = Append(@, LifeCall("start", "connect"))]
    /\ LifeFrame

\* connectWithRetry returns, or throws after its last attempt: the catch
\* of start() resets isRunning and rethrows.
LifeConnect(k) ==
    /\ k \in 1..Len(boot.calls)
    /\ boot.calls[k] = LifeCall("start", "connect")
    /\ \E ok \in BOOLEAN :
         boot' = IF ok
                 THEN [boot EXCEPT !.calls[k].pc = "sync"]
                 ELSE [boot EXCEPT !.isRunning = FALSE,
                                   !.calls[k].pc = "threw"]
    /\ LifeFrame

\* The first synchronisation returns (it catches its own errors) and
\* start() arms its timers with setInterval and returns.
LifeArm(k) ==
    /\ k \in 1..Len(boot.calls)
    /\ boot.calls[k] = LifeCall("start", "sync")
    /\ boot' = [boot EXCEPT
                  !.syncInterval = k,
                  !.processingInterval =
                      IF "processing" \in TimerKinds THEN k ELSE @,
                  !.live = @ \cup { [by |-> k, kind |-> kind] :
                                      kind \in TimerKinds },
                  !.calls[k].pc = "returned"]
    /\ LifeFrame

\* stop() up to its await: the return when the service does not run, or
\* clearInterval on the handles the object holds and $disconnect.
LifeStop ==
    /\ Len(boot.calls) < MaxLifeCalls
    /\ boot' =
         IF ~boot.isRunning
         THEN [boot EXCEPT !.calls = Append(@, LifeCall("stop", "returned"))]
         ELSE [boot EXCEPT
                 !.live = { t \in @ :
                              /\ ~(t.kind = "sync" /\ t.by = boot.syncInterval)
                              /\ ~(t.kind = "processing"
                                     /\ t.by = boot.processingInterval) },
                 !.syncInterval = 0,
                 !.processingInterval = 0,
                 !.calls = Append(@, LifeCall("stop", "disconnect"))]
    /\ LifeFrame

\* $disconnect returns and isRunning is reset, or it throws and the catch
\* of stop() only logs.
LifeDisconnect(k) ==
    /\ k \in 1..Len(boot.calls)
    /\ boot.calls[k] = LifeCall("stop", "disconnect")
    /\ \E ok \in BOOLEAN :
         boot' = [boot EXCEPT !.isRunning = IF ok THEN FALSE ELSE @,
                              !.calls[k].pc = "returned"]
    /\ LifeFrame

\* An armed timer fires and its callback starts a cycle.
LifeTick ==
    /\ boot.live # {}
    /\ boot.cycles < MaxTicks
    /\ boot' = [boot EXCEPT
                  !.cycles = @ + 1,
                  !.lateCycle = @ \/ (~boot.isRunning /\ ~StartInProgress)]
    /\ LifeFrame

InitLife ==
    /\ deployed \in {"users", "cabinets"}
    /\ users = [u \in Users |-> Cred("key", "secret")]
    /\ upstream = [u \in Users |-> OtherFeed]
    /\ dateInRange = TRUE
    /\ bybitTransactionFromCabinet = <<>>
    /\ boot = NewService
    /\ call = NoCall
    /\ chat = NoChats
    /\ bybitOrderInfo = <<>>
    /\ enr = IdleEnr
    /\ bybitTransaction = <<>>
    /\ userStatus = [u \in Users |-> NoStatus]
    /\ cyc = [c \in CycleIds |-> IdleCycle]
    /\ sent = {}
    /\ faults = 0
    /\ ticks = 0
    /\ lastRun = [u \in Users |-> NoRun]

NextLife ==
    \/ LifeStart
    \/ LifeStop
    \/ LifeTick
    \/ \E k \in 1..MaxLifeCalls :
         \/ LifeConnect(k)
         \/ LifeArm(k)
         \/ LifeDisconnect(k)

SpecLife == InitLife /\ [][NextLife]_vars

\* ------------------------------------------------------------------------
\* Properties
\* ------------------------------------------------------------------------
\* The list a failure-free run fetches from a feed: the windowed list cut
\* at the page cap or, when that is empty, the whole list cut at the cap.
Delivered(f) ==
    IF f.nRecent > 0
    THEN SubSeq(f.items, 1, Min(f.nRecent, PageCap * PageSize1))
    ELSE SubSeq(f.items, 1, Min(Len(f.items), PageCap * PageSize2))

RowsOf(orderNo, u) ==
    { i \in 1..Len(bybitTransaction) :
        bybitTransaction[i].orderNo = orderNo /\ bybitTransaction[i].userId = u }

\* The trades the cabinet sync is handed: the windowed first page.
CabinetDelivered(f) ==
    SubSeq(f.items, 1, Min(f.nRecent, CabinetPageSize))

\* C1: once two consecutive runs for one account have completed without a
\* failure against the same upstream list, the second of them has created
\* no row and every order number of the list that passes the filter is
\* stored exactly once -- under its (orderNo, userId) key for a user and
\* under its orderNo for a cabinet -- also when the list repeats an order.
C1_IdempotentUpsert ==
    \A u \in Users : lastRun[u].cleanRuns = 2 =>
      /\ lastRun[u].inserted = 0
      /\ deployed = "users" =>
           \A k \in 1..Len(Delivered(upstream[u])) :
             LET t == Delivered(upstream[u])[k]
             IN (PassesUserFilter(t) /\ OrderNoOf(t) # 0)
                  => Cardinality(RowsOf(OrderNoOf(t), u)) = 1
      /\ deployed = "cabinets" =>
           \A k \in 1..Len(CabinetDelivered(upstream[u])) :
             LET t == CabinetDelivered(upstream[u])[k]
             IN PassesCabinetFilter(t)
                  => Cardinality(findUnique(bybitTransactionFromCabinet, t.id)) = 1

\* Two clean runs over a list that carries the same order twice.
C1_Witness ==
    /\ deployed = "users"
    /\ upstream[1] = Feed(<<SellOne, SellOne>>, 2)
    /\ lastRun[1].cleanRuns = 2
    /\ lastRun[1].inserted = 0
    /\ Cardinality(RowsOf(1, 1)) = 1

\* The invocation of syncUserTransactions of cycle c is over.
InvocationOver(c) == cyc[c].pc = "sleep" /\ Len(cyc[c].invoked) = cyc[c].ui

\* C3: within one syncUserTransactions call, a first page of strategy 1
\* that carries data excludes every request of strategy 2, and a first page
\* of strategy 1 that is empty or fails is followed by page 1 of strategy 2.
C3_FallbackOrdering ==
    \A c \in CycleIds : deployed = "users" =>
      LET r == cyc[c].reqs
          first1data == Len(r) > 0 /\ r[1].strategy = 1 /\ r[1].page = 1
                        /\ r[1].res = "data"
          fetchOver == cyc[c].pc \in {"lookup", "create", "status"}
                       \/ (cyc[c].pc = "sleep" /\ cyc[c].writes > 0)
      IN /\ Len(r) > 0 => r[1].strategy = 1 /\ r[1].page = 1
         /\ first1data => \A i \in 1..Len(r) : r[i].strategy = 1
         /\ (fetchOver /\ ~first1data) =>
                \E i \in 1..Len(r) : r[i].strategy = 2 /\ r[i].page = 1

\* C3 witness: page 1 of strategy 1 carried data, a later page of strategy 1
\* failed, and the fetch phase is over.
C3_Witness ==
    \E c \in CycleIds :
      /\ cyc[c].pc = "lookup"
      /\ Len(cyc[c].reqs) = 2
      /\ cyc[c].reqs[1].res = "data"
      /\ cyc[c].reqs[2].res = "failed"

\* C8: a cycle calls the account synchronisation for every loaded account,
\* in list order, whatever the outcome of the earlier accounts.
C8_BatchIsolation ==
    \A c \in CycleIds :
      /\ cyc[c].invoked = SubSeq(cyc[c].users, 1, Len(cyc[c].invoked))
      /\ cyc[c].pc \in {"fetch", "lookup", "create", "status", "sleep",
                        "cfetch", "clookup", "ccreate", "cupdate", "cstatus",
                        "csleep"}
            => Len(cyc[c].invoked) = cyc[c].ui
      /\ cyc[c].pc = "done" => cyc[c].invoked = cyc[c].users

\* C8 witness: the cycle is over, two accounts were loaded and the run of
\* the first one met a failure.
C8_Witness ==
    \E c \in CycleIds :
      /\ cyc[c].pc = "done"
      /\ Len(cyc[c].users) = 2
      /\ cyc[c].invoked = cyc[c].users
      /\ lastRun[cyc[c].users[1]].done
      /\ ~lastRun[cyc[c].users[1]].clean
      /\ faults > 0

\* C7: an invocation for an account that has both keys, once it has
\* returned, has written the account's sync status exactly once.
C7_StatusWrittenOnce ==
    \A c \in CycleIds :
      (/\ cyc[c].pc \in {"sleep", "csleep"}
       /\ Len(cyc[c].invoked) = cyc[c].ui
       /\ ~LacksKeys(users[CurUser(c)]))
        => cyc[c].writes = 1

\* C9: once the store loop of an invocation is over, every fetched record
\* that passes the filter has been looked up, whatever failed before it.
C9_RecordIsolation ==
    \A c \in CycleIds :
      (/\ cyc[c].pc \in {"status", "sleep", "cstatus", "csleep"}
       /\ Len(cyc[c].invoked) = cyc[c].ui)
        => \A k \in 1..Len(cyc[c].all) :
             (IF deployed = "users"
              THEN PassesUserFilter(cyc[c].all[k]) /\ OrderNoOf(cyc[c].all[k]) # 0
              ELSE PassesCabinetFilter(cyc[c].all[k]))
               => k \in cyc[c].looked

\* The same two statements for the user service alone.
C7_UserStatusWrittenOnce == deployed = "users" => C7_StatusWrittenOnce
C9_UserRecordIsolation == deployed = "users" => C9_RecordIsolation

\* C2: no two rows of the transaction table carry the same
\* (orderNo, userId), in every state the timer-driven cycles can reach.
C2_DedupKeyUnique ==
    \A i, j \in 1..Len(bybitTransaction) :
      i # j => \/ bybitTransaction[i].orderNo # bybitTransaction[j].orderNo
               \/ bybitTransaction[i].userId # bybitTransaction[j].userId

\* C4: a call of syncUserTransactions for the user of the two-page scenario
\* that starts on an empty table and meets no failure has requested the two
\* pages and the empty third one, has inserted one row per record and has
\* written the success status with that count.
C4_EndToEnd ==
    \A c \in CycleIds :
      (/\ upstream[1] = E2EFeed
       /\ InvocationOver(c)
       /\ CurUser(c) = 1
       /\ cyc[c].startRows = 0
       /\ cyc[c].clean)
        => /\ cyc[c].inserted = E2ECount
           /\ Len(bybitTransaction) = E2ECount
           /\ \A k \in 1..E2ECount : Cardinality(RowsOf(k, 1)) = 1
           /\ cyc[c].writes = 1
           /\ userStatus[1] = Status("Success", E2ECount)
           /\ [i \in 1..Len(cyc[c].reqs) |-> cyc[c].reqs[i].res]
                = <<"data", "data", "empty">>
           /\ \A i \in 1..Len(cyc[c].reqs) : cyc[c].reqs[i].strategy = 1

C4_Witness ==
    \E c \in CycleIds :
      /\ upstream[1] = E2EFeed
      /\ InvocationOver(c)
      /\ CurUser(c) = 1
      /\ cyc[c].startRows = 0
      /\ cyc[c].clean
      /\ Len(cyc[c].all) = E2ECount
      /\ Len(bybitTransaction) = E2ECount
      /\ userStatus[1] = Status("Success", E2ECount)

\* C5: after a pass of the later service in which no store call failed,
\* every transaction whose chat request threw is still unprocessed and
\* carries an error message.
C5_ChatThrowKeepsPending ==
    (deployed = "cabinets" /\ enr.pc = "idle" /\ ~enr.storeFault) =>
      \A x \in enr.threw :
        /\ ~TableRows(x[1])[x[2]].processed
        /\ TableRows(x[1])[x[2]].lastAttemptError # "none"

\* The transactions selected by the finished pass whose owner passes the
\* key check of the pass and whose chat holds no message.
EmptyChatSelected ==
    { x \in enr.atStart :
        /\ chat[TableRows(x[1])[x[2]].orderNo] = <<>>
        /\ ~SkipsForKeys(x[1], users[OwnerOf(TableRows(x[1])[x[2]], x[1])]) }

\* C6: after a pass without any failure, in every version of the pass, a
\* selected transaction whose chat is empty is no longer selected by the
\* query of the next pass and has an empty phone list.
C6_EmptyChatMarked ==
    (enr.pc = "idle" /\ faults = 0) =>
      \A x \in EmptyChatSelected :
        /\ x[2] \notin Unprocessed(x[1])
        /\ x[1] = "cabinet" => TableRows(x[1])[x[2]].extractedPhones = {}
        /\ x[1] = "user" =>
             \E k \in 1..Len(bybitOrderInfo) :
               /\ bybitOrderInfo[k].orderNo = TableRows(x[1])[x[2]].orderNo
               /\ bybitOrderInfo[k].userId = TableRows(x[1])[x[2]].userId
               /\ bybitOrderInfo[k].phoneNumbers = {}

\* The same statement for the later service alone.
C6_LaterEmptyChatMarked == deployed = "cabinets" => C6_EmptyChatMarked

\* C10: every trade-page request and every chat request that reached the
\* network was sent by a client whose timeSyncComplete flag was true.
C10_NoRequestBeforeSync ==
    \A m \in sent : m.kind \in {"orders", "chat"} => m.synced

\* A direct call of getAndProcessAllOrders has returned.
OrdersCallDone == call.op = "getAndProcessAllOrders" /\ call.pc = "done"

\* The message a failed request is expected to carry: the text of the
\* synchronisation refusal, the exception's message, or the ret_msg of the
\* body when it has one.
ExpectedMessage(p, reply) ==
    IF ~p.timeSyncComplete THEN NotSyncedMessage
    ELSE IF reply.kind = "throw" THEN reply.message
    ELSE IF reply.kind = "body" /\ Has(reply.body, "ret_msg")
            /\ reply.body.ret_msg # ""
         THEN reply.body.ret_msg
         ELSE DefaultFailure

\* The request fails: the clock is not synchronised, the transport throws,
\* or the body carries a non-zero ret_code.
FailingRequest(p, reply) ==
    \/ ~p.timeSyncComplete
    \/ reply.kind = "throw"
    \/ reply.kind = "body" /\ Has(reply.body, "ret_code")
         /\ reply.body.ret_code # 0

C12_CamelCaseAccepted ==
    ( /\ OrdersCallDone
      /\ call.parser.timeSyncComplete
      /\ call.arg.kind = "body"
      /\ Has(call.arg.body, "retCode")
      /\ call.arg.body.retCode = 0 ) =>
        /\ call.result.success
        /\ call.result.data.totalCount = Len(ItemsOf(call.arg.body))

\* A direct call of processTransactions has returned.
AggregateCallDone == call.op = "processTransactions" /\ call.pc = "done"

\* Sum over the coins of byCoin of one field of one side.
RECURSIVE CoinSum(_, _, _, _)
CoinSum(byCoin, coins, side, field) ==
    IF coins = {} THEN 0
    ELSE LET c == CHOOSE x \in coins : TRUE
         IN  byCoin[c][side][field]
               + CoinSum(byCoin, coins \ {c}, side, field)

SideMatchesCoins(r, side) ==
    /\ r.summary[side].count =
         CoinSum(r.byCoin, DOMAIN r.byCoin, side, "count")
    /\ r.summary[side].volume =
         CoinSum(r.byCoin, DOMAIN r.byCoin, side, "volume")

IsBuy(tx) == OrderTypeOf(tx) = "buy"

IsSell(tx) == OrderTypeOf(tx) = "sell"

IsCountedBuy(tx) == IsBuy(tx) /\ CoinOf(tx) # ""

IsCountedSell(tx) == IsSell(tx) /\ CoinOf(tx) # ""

\* Numbers of records of a list by side, all or only those naming a coin.
BuyCount(txs) == Cardinality({ j \in 1..Len(txs) : IsBuy(txs[j]) })

SellCount(txs) == Cardinality({ j \in 1..Len(txs) : IsSell(txs[j]) })

CountedBuyCount(txs) == Cardinality({ j \in 1..Len(txs) : IsCountedBuy(txs[j]) })

CountedSellCount(txs) == Cardinality({ j \in 1..Len(txs) : IsCountedSell(txs[j]) })

C13_NoPassOverlap ==
    Cardinality({ c \in CycleIds : cyc[c].pc # "idle" }) <= 1

\* connectWithRetry has returned to start().
Connected == boot.pc \in {"firstSync", "running"}

\* C14: connectWithRetry makes at most dbRetryAttempts connection attempts,
\* returns at the first success (every attempt before it failed), sleeps
\* dbRetryDelay between two consecutive attempts and throws after the last
\* failed attempt; start() then rethrows with isRunning = false, no timer
\* armed and no synchronisation run.
C14_StartupRetry ==
    /\ boot.connects <= dbRetryAttempts
    /\ boot.connects = boot.attempts + (IF Connected THEN 1 ELSE 0)
    /\ Len(boot.slept) =
         IF boot.pc \in {"new", "connect"} THEN boot.connects
         ELSE boot.connects - 1
    /\ \A i \in 1..Len(boot.slept) : boot.slept[i] = dbRetryDelay
    /\ boot.pc = "failed" <=> boot.attempts = dbRetryAttempts
    /\ boot.pc = "failed" =>
         /\ ~boot.isRunning
         /\ ~boot.syncInterval
         /\ boot.syncRuns = 0
         /\ AllIdle
         /\ sent = {}
         /\ ticks = 0

\* Five attempts failed, four sleeps lay between them, and start() threw.
C14_Witness ==
    /\ boot.pc = "failed"
    /\ boot.connects = dbRetryAttempts
    /\ Len(boot.slept) = dbRetryAttempts - 1
    /\ ~boot.isRunning

\* A status code has gone through the normalisation paths.
StatusCallDone == call.op = "statusText" /\ call.pc = "done"

\* C15: every normalisation path gives the same status text: "Completed"
\* for code 50, "Cancelled" for code 40 and "Unknown" for every code outside
\* the table.
C15_SameStatusText ==
    StatusCallDone =>
        LET r == call.result
        IN  /\ r.export = r.cabinet
            /\ call.arg = 50 =>
                  r.export = "Completed" /\ r.cabinet = "Completed"
                    /\ r.user = "Completed"
            /\ call.arg = 40 =>
                  r.export = "Cancelled" /\ r.cabinet = "Cancelled"
            /\ call.arg \notin ExportTable =>
                  r.export = "Unknown" /\ r.cabinet = "Unknown"

\* The rows the service has written: every row of the user table, and the
\* rows of the cabinet table but the one that was there before.
WrittenRows ==
    { bybitTransaction[i] : i \in 1..Len(bybitTransaction) }
    \cup ({ bybitTransactionFromCabinet[i] :
              i \in 1..Len(bybitTransactionFromCabinet) } \ {OldCabinetRow})

\* C16: the totalPrice of every stored transaction, of a user or of a
\* cabinet, is its stored amount multiplied by its stored unitPrice.
C16_TotalPriceComputed ==
    \A r \in WrittenRows : r.totalPrice = r.amount * r.unitPrice

\* A direct call of extractPhoneNumbers has returned.
PhoneCallDone == call.op = "extractPhoneNumbers" /\ call.pc = "done"

\* C17: for a message that holds one number written "8 (XXX) XXX-XX-XX" or
\* "+7 XXX XXX XX XX", extractPhoneNumbers returns the one value
\* "+7XXXXXXXXXX", the same for both forms, and returns it once when the
\* number stands in two messages.
C17_PhoneNormalization ==
    PhoneCallDone => call.result = { <<"+", "7">> \o call.digits }

\* Two messages held the same number, one in each form, and one value came
\* back.
C17_Witness ==
    /\ PhoneCallDone
    /\ Len(call.arg) = 2
    /\ call.arg[1].message = Form8(call.digits)
    /\ call.arg[2].message = FormPlus7(call.digits)
    /\ Cardinality(call.result) = 1
    /\ call.digits[1] = "8"
    /\ call.digits[4] = "7"

\* The upstream records of account u a stored user row can come from: those
\* with the row's order number, amount and price.
OriginsOf(row) ==
    { k \in 1..Len(upstream[row.userId].items) :
        LET t == upstream[row.userId].items[k]
        IN  /\ OrderNoOf(t) = row.orderNo
            /\ t.amount = row.amount
            /\ t.price = row.unitPrice }

\* C18: every row of the user transaction table comes from an upstream
\* record of its account with side = 1 and status = 50 and is stored with
\* type "Sell" and status "Completed"; no record of another side or status
\* is inserted.
C18_UserPersistenceFilter ==
    \A i \in 1..Len(bybitTransaction) :
      LET row == bybitTransaction[i]
      IN  /\ row.type = "Sell"
          /\ row.status = "Completed"
          /\ \E k \in OriginsOf(row) :
               LET t == upstream[row.userId].items[k]
               IN  t.side = 1 /\ t.status = 50

\* A failure-free run over a list that holds a cancelled order and a
\* completed Sell has stored the second and not the first.
C18_Witness ==
    /\ deployed = "users"
    /\ upstream[1] = Feed(<<Raw(2, 0, SideSell, StatusCancelled, 1, 5, 1), SellOne>>, 2)
    /\ lastRun[1].clean
    /\ lastRun[1].inserted = 1
    /\ RowsOf(2, 1) = {}
    /\ Cardinality(RowsOf(1, 1)) = 1

\* The type text the cabinet transform gives a side.
CabinetTag(side) == IF side = SideBuy THEN "BUY" ELSE "SELL"

\* C19: a failure-free synchronisation of a cabinet stores every fetched
\* completed record of either side under its tag: a Buy record is stored
\* as a Buy row and a Sell record as a Sell row.
C19_CabinetKeepsBothSides ==
    \A u \in Users :
      (deployed = "cabinets" /\ lastRun[u].done /\ lastRun[u].clean) =>
        \A k \in 1..Len(CabinetDelivered(upstream[u])) :
          LET t == CabinetDelivered(upstream[u])[k]
          IN  t.status = StatusCompleted =>
                \E i \in findUnique(bybitTransactionFromCabinet, t.id) :
                  bybitTransactionFromCabinet[i].type = CabinetTag(t.side)

\* A direct call of exportToMatchingFormat is over.
ExportCallDone == call.op = "exportToMatchingFormat" /\ call.pc = "done"

OwnRows(orderNo, u) ==
    IF deployed = "users" THEN RowsOf(orderNo, u)
    ELSE { i \in findUnique(bybitTransactionFromCabinet, orderNo) :
             bybitTransactionFromCabinet[i].cabinetId = u }

\* The records a failure-free run for account u takes to the store.
StoreBound(u) ==
    IF deployed = "users"
    THEN SelectSeq(Delivered(upstream[u]),
                   LAMBDA t : PassesUserFilter(t) /\ OrderNoOf(t) # 0)
    ELSE SelectSeq(CabinetDelivered(upstream[u]), PassesCabinetFilter)

\* The order number a record is stored under.
StoreKey(t) == IF deployed = "users" THEN OrderNoOf(t) ELSE t.id

\* C22: the existence check is per account.  After a failure-free run for
\* an account every record of its list that passes the filter is stored
\* under that account: a row with the same order number under another
\* account does not suppress the insert.
C22_ExistencePerAccount ==
    \A u \in Users :
      (lastRun[u].done /\ lastRun[u].clean) =>
        \A k \in 1..Len(StoreBound(u)) :
          OwnRows(StoreKey(StoreBound(u)[k]), u) # {}

\* The rows the table of the deployed service has gained since the run of
\* cycle c for its current account began.
RowsGained(c) ==
    (IF deployed = "users" THEN Len(bybitTransaction)
     ELSE Len(bybitTransactionFromCabinet)) - cyc[c].startRows

\* The run of cycle c for its current account has written its status.
StatusWritten(c) == cyc[c].pc \in {"sleep", "csleep"} /\ cyc[c].writes > 0

\* C23: the count of a success status is the number of rows the run has
\* inserted; records skipped as existing, filtered out or failed are not
\* counted.
C23_CountIsInserted ==
    \A c \in CycleIds :
      (StatusWritten(c) /\ cyc[c].status.kind = "Success") =>
        cyc[c].status.n = RowsGained(c)

\* C24: within one call for an account the pages of a strategy are asked
\* for in the order 1, 2, ..., at most PageCap of them; after a page that
\* is empty or fails no further page of that strategy is asked for; so the
\* call makes at most 2 * PageCap page requests and none twice.
C24_PaginationStopAndCap ==
    \A c \in CycleIds : deployed = "users" =>
      LET r == cyc[c].reqs
      IN  /\ Len(r) <= 2 * PageCap
          /\ \A i \in 1..Len(r) : r[i].page \in 1..PageCap
          /\ Len(r) > 0 => r[1].page = 1
          /\ \A i \in 1..(Len(r) - 1) :
               IF r[i].res = "data" /\ r[i + 1].strategy = r[i].strategy
               THEN r[i + 1].page = r[i].page + 1
               ELSE /\ r[i].strategy = 1
                    /\ r[i + 1].strategy = 2
                    /\ r[i + 1].page = 1
          /\ \A i, j \in 1..Len(r) :
               (r[i].strategy = r[j].strategy /\ r[i].page = r[j].page)
                 => i = j

\* The empty window sent the call to strategy 2, whose ten pages all
\* carried data; the eleventh page was not asked for.
C24_Witness ==
    \E c \in CycleIds :
      /\ cyc[c].pc \in {"lookup", "create", "status", "sleep"}
      /\ Len(cyc[c].reqs) = PageCap + 1
      /\ cyc[c].reqs[1].res = "empty"
      /\ cyc[c].reqs[PageCap + 1] =
           [strategy |-> 2, page |-> PageCap, res |-> "data"]
      /\ Len(cyc[c].all) = PageCap * PageSize2


\* C25: in a cycle over the accounts one pacing sleep has been executed
\* after the sync of every account that was entered, whatever its
\* outcome; while account i+1 is being synced exactly i sleeps have passed,
\* so one sleep lies between the requests of two consecutive accounts.
SyncingAccount(cy) ==
    cy.pc \in {"fetch", "lookup", "create", "status", "sleep",
               "cfetch", "clookup", "ccreate", "cupdate", "cstatus", "csleep"}

C25_PacingAfterEveryAccount ==
    \A c \in CycleIds :
      LET cy == cyc[c]
      IN  /\ SyncingAccount(cy) => cy.slept = Len(cy.invoked) - 1
          /\ cy.pc \in {"user", "cabinet", "done"} => cy.slept = Len(cy.invoked)

\* The sync of the first account met a failure, the pause was taken, and
\* the second account is now being asked for its orders.
C25_Witness ==
    \E c \in CycleIds :
      /\ cyc[c].pc \in {"fetch", "cfetch"}
      /\ Len(cyc[c].invoked) = 2
      /\ cyc[c].slept = 1
      /\ lastRun[cyc[c].invoked[1]].done
      /\ ~lastRun[cyc[c].invoked[1]].clean


\* C26: a call for an account in which the clock synchronisation failed,
\* or in which every page request of every strategy failed, reports the
\* status kind "Error", not "NoNew" or "Success".
FetchFailed(cy) ==
    /\ Len(cy.reqs) > 0
    /\ \/ ~cy.parser.timeSyncComplete
       \/ \A i \in 1..Len(cy.reqs) : cy.reqs[i].res = "failed"

C26_FailedSyncReported ==
    \A c \in CycleIds :
      (deployed = "users" /\ cyc[c].pc = "status" /\ FetchFailed(cyc[c]))
        => cyc[c].status.kind = "Error"


\* The transactions selected by the finished pass whose owning account has
\* the token and the secret the synchronisation works with.
KeyedSelected ==
    { x \in enr.atStart :
        ~LacksKeys(users[OwnerOf(TableRows(x[1])[x[2]], x[1])]) }

\* C27: after a pass in which no store or network call failed, in every
\* version of the pass, every selected transaction whose owning account
\* has key and secret is no longer selected by the query of the next pass,
\* whether or not a phone number was found in its chat.
C27_EnrichmentComplete ==
    (enr.pc = "idle" /\ faults = 0) =>
      \A x \in KeyedSelected : x[2] \notin Unprocessed(x[1])


\* The rows of the two tables as the passes find them.
PendingRow(table, i) ==
    IF table = "user"
    THEN UserRow(IF i = 1 THEN SellOne ELSE SellTwo, i)
    ELSE CabinetRow(IF i = 1 THEN SellOne ELSE SellTwo, i)

Keyless(table, i) == LacksKeys(users[OwnerOf(TableRows(table)[i], table)])

AtTransaction == enr.pc \in {"time", "chat", "info", "mark", "error", "sleep"}

\* C28: a pass never stands at a transaction whose owning account lacks
\* the key or the secret, so no clock or chat request is made for it; the
\* row of such a transaction keeps every field and gets no order-info
\* record; and the pass goes on: once a failure-free pass of the later
\* service is over, every selected transaction that the key check did not
\* skip is processed.
C28_SkipWithoutKeys ==
    /\ AtTransaction => ~Keyless(enr.table, CurIdx)
    /\ \A table \in {"user", "cabinet"} :
         \A i \in 1..Len(TableRows(table)) :
           Keyless(table, i) =>
             /\ TableRows(table)[i] = PendingRow(table, i)
             /\ table = "user" =>
                  \A k \in 1..Len(bybitOrderInfo) :
                    bybitOrderInfo[k].orderNo # bybitTransaction[i].orderNo
    /\ (enr.pc = "idle" /\ faults = 0 /\ deployed = "cabinets") =>
         \A x \in enr.atStart :
           \/ SkipsForKeys(x[1], users[OwnerOf(TableRows(x[1])[x[2]], x[1])])
           \/ TableRows(x[1])[x[2]].processed

\* A pass of the later service has skipped the first cabinet transaction,
\* whose cabinet has no token, and has processed the second.
C28_Witness ==
    /\ deployed = "cabinets"
    /\ enr.pc = "idle"
    /\ enr.atStart = {"user", "cabinet"} \X {1, 2}
    /\ Keyless("cabinet", 1)
    /\ ~bybitTransactionFromCabinet[1].processed
    /\ ~Keyless("cabinet", 2)
    /\ bybitTransactionFromCabinet[2].processed
    /\ Cardinality({ m \in sent : m.kind = "chat" }) > 0


\* The selected transactions behind the position at which the loop of the
\* pass stood last that the key check does not skip.
Unreached ==
    { k \in (enr.i + 1)..Len(enr.list) :
        ~SkipsForKeys(enr.table,
                      users[OwnerOf(TableRows(enr.table)[enr.list[k]],
                                    enr.table)]) }

\* C29: whatever store write failed while a transaction was enriched, the
\* write that records the error included, the pass does not end before its
\* loop has gone through the remaining selected transactions.
C29_EnrichmentIsolation == enr.pc = "idle" => Unreached = {}


\* A step of the synchronisation keeps every row of both tables in place,
\* changes no field of a cabinet row other than its status and no field of
\* a user row at all, and appends a row only under a key no row has yet.
RowsKeepFields ==
    /\ Len(bybitTransaction') >= Len(bybitTransaction)
    /\ \A i \in 1..Len(bybitTransaction) :
         bybitTransaction'[i] = bybitTransaction[i]
    /\ \A i \in (Len(bybitTransaction) + 1)..Len(bybitTransaction') :
         ~findFirst(bybitTransaction, bybitTransaction'[i].orderNo,
                    bybitTransaction'[i].userId)
    /\ Len(bybitTransactionFromCabinet') >= Len(bybitTransactionFromCabinet)
    /\ \A i \in 1..Len(bybitTransactionFromCabinet) :
         [bybitTransactionFromCabinet'[i]
            EXCEPT !.status = bybitTransactionFromCabinet[i].status]
           = bybitTransactionFromCabinet[i]
    /\ \A i \in (Len(bybitTransactionFromCabinet) + 1)
                  ..Len(bybitTransactionFromCabinet') :
         findUnique(bybitTransactionFromCabinet,
                    bybitTransactionFromCabinet'[i].orderNo) = {}

\* The update of an existing row is only issued for a status that differs
\* from the stored one.
UpdateOnlyOnChange ==
    \A c \in CycleIds :
      cyc[c].pc = "cupdate" =>
        \A i \in findUnique(bybitTransactionFromCabinet,
                            cyc[c].all[cyc[c].ti].id) :
          bybitTransactionFromCabinet[i].status
            # CabinetStatusText(cyc[c].all[cyc[c].ti].status)

\* C30: a record whose row already exists gives no new row and changes no
\* field of the existing row other than the status, and the status is
\* written only when the converted status differs from the stored one.
C30_ExistingRowsImmutable == []UpdateOnlyOnChange /\ [][RowsKeepFields]_vars

\* The sale stored earlier as pending has been met again as completed:
\* its row carries the new status and every other field as before, and the
\* table has no second row.
C30_Witness ==
    /\ deployed = "cabinets"
    /\ bybitTransactionFromCabinet =
         <<[OldCabinetRow EXCEPT !.status = CabinetStatusText(StatusCompleted)]>>
    /\ \E c \in CycleIds : cyc[c].pc = "cstatus" /\ cyc[c].looked # {}


\* A fetched record that has neither an id nor an orderId.
Unidentified(t) == t.id = 0 /\ t.orderId = 0

\* C31: once the store loop of an invocation without any injected failure
\* is over, no record lacking both identifiers has been looked up or
\* stored, and every record with an id that passes the filter of its
\* service has been looked up.
C31_MissingIdentifierDropped ==
    \A c \in CycleIds :
      (/\ cyc[c].pc \in {"status", "sleep", "cstatus", "csleep"}
       /\ Len(cyc[c].invoked) = cyc[c].ui
       /\ faults = 0)
        => /\ \A k \in 1..Len(cyc[c].all) :
                Unidentified(cyc[c].all[k]) => k \notin cyc[c].looked
           /\ \A i \in 1..Len(bybitTransaction) :
                bybitTransaction[i].orderNo # 0
           /\ \A i \in 1..Len(bybitTransactionFromCabinet) :
                bybitTransactionFromCabinet[i].orderNo # 0
           /\ \A k \in 1..Len(cyc[c].all) :
                (/\ cyc[c].all[k].id # 0
                 /\ IF deployed = "users" THEN PassesUserFilter(cyc[c].all[k])
                    ELSE PassesCabinetFilter(cyc[c].all[k]))
                  => k \in cyc[c].looked


\* The place of a query in the fallback chain.
QueryRank(q) ==
    CASE q = "windowed" -> 1 [] q = "unwindowed" -> 2 [] OTHER -> 3

\* C32: the requests of processCompletedTransactions come in the order
\* time-windowed, unwindowed, minimal, and a request is made only after
\* every earlier one gave no non-empty page.
C32_StrategyOrder ==
    call.op = "processCompletedTransactions" =>
      \A i, j \in 1..Len(call.log) :
        i < j => /\ QueryRank(call.log[i].query) < QueryRank(call.log[j].query)
                 /\ call.log[i].res # "data"


\* The account has no API key or no API secret.
NoCredentials(u) ==
    \/ Missing(Field(users[u], "bybitApiToken"))
    \/ Missing(Field(users[u], "bybitApiSecret"))

\* C33: a synchronisation call that has asked for the clock or for a page
\* and an enrichment pass that stands at a transaction work for an account
\* that has key and secret; and while no account has both, no request at
\* all has left the service.
C33_NoRequestWithoutCredentials ==
    /\ \A c \in CycleIds :
         (\/ cyc[c].pc \in {"fetch", "cfetch"}
          \/ SyncingAccount(cyc[c]) /\ Len(cyc[c].reqs) > 0)
           => ~NoCredentials(CurUser(c))
    /\ AtTransaction
         => ~NoCredentials(OwnerOf(TableRows(enr.table)[CurIdx], enr.table))
    /\ (\A u \in Users : NoCredentials(u)) => sent = {}

\* The cycle has gone through both accounts, requests were sent for the
\* first, and the second, which has no secret, was entered and left.
C33_Witness ==
    \E c \in CycleIds :
      /\ cyc[c].pc = "done"
      /\ cyc[c].invoked = <<1, 2>>
      /\ ~NoCredentials(1)
      /\ NoCredentials(2)
      /\ \E m \in sent : m.kind = "orders"


\* The text messages of a chat, in their order.
TextOnly(messages) ==
    LET IsText(m) == m.contentType = "str"
    IN SelectSeq(messages, IsText)

\* "+7" followed by exactly ten digits.
WellFormedPhone(s) ==
    /\ Len(s) = 12
    /\ s[1] = "+"
    /\ s[2] = "7"
    /\ \A k \in 3..12 : s[k] \in DigitChars

\* C34: every value extractPhoneNumbers returns is "+7" followed by ten
\* digits, and the result is the one the text messages alone give: a
\* message whose contentType is not "str" adds nothing.  The result is a
\* set, as the source collects the values in a Set.
C34_PhoneOutputFormat ==
    PhoneCallDone =>
      /\ \A s \in call.result : WellFormedPhone(s)
      /\ call.result = extractPhoneNumbers(TextOnly(call.arg))
      /\ TextOnly(call.arg) = <<>> => call.result = {}

\* A picture whose caption holds a number came with a text of twelve
\* digits, in which two patterns find two different numbers.
C34_Witness ==
    /\ PhoneCallDone
    /\ call.arg = <<Msg("pic", PhoneText), Msg("str", LongRun)>>
    /\ Cardinality(call.result) = 2
    /\ FormatPhone(SubSeq(PhoneText, 4, 6) \o SubSeq(PhoneText, 9, 11)
                     \o SubSeq(PhoneText, 13, 14) \o SubSeq(PhoneText, 16, 17))
         \notin call.result


\* The account object getChatMessages receives for the transaction the
\* pass stands at, and the account that owns the transaction.
ChatAccount == ChatArg(enr.table, users[OwnerOf(CurRow, enr.table)])
ChatOwner == users[OwnerOf(CurRow, enr.table)]

\* C35: when a pass is about to send the chat request of a transaction,
\* the client of the request is built from the token and the secret of the
\* owning account, and neither is missing.
C35_ChatUsesOwnerCredentials ==
    enr.pc = "chat" =>
      /\ Field(ChatAccount, "bybitApiToken") = ChatOwner.bybitApiToken
      /\ Field(ChatAccount, "bybitApiSecret") = ChatOwner.bybitApiSecret
      /\ ~Missing(Field(ChatAccount, "bybitApiToken"))
      /\ ~Missing(Field(ChatAccount, "bybitApiSecret"))


\* Some start() or stop() call is suspended at an await.
LifeCallInProgress ==
    \E k \in 1..Len(boot.calls) :
      boot.calls[k].pc \in {"connect", "sync", "disconnect"}

\* C36: under every interleaving of start() and stop() calls, whenever
\* isRunning is false and no start() is under way, no timer is armed and
\* no cycle has been started by a timer in such a state.
C36_StoppedMeansNoTimer ==
    (~boot.isRunning /\ ~StartInProgress)
      => boot.live = {} /\ ~boot.lateCycle

\* C37: once no call is under way the service is either fully running,
\* with isRunning true and its timers armed, or fully stopped, with
\* isRunning false and no timer armed, also after a failed $disconnect; and
\* at no time is more than one timer of a kind armed.
C37_RunningOrStopped ==
    /\ \A kind \in TimerKinds :
         Cardinality({ t \in boot.live : t.kind = kind }) <= 1
    /\ ~LifeCallInProgress =>
         \/ /\ boot.isRunning
            /\ \A kind \in TimerKinds : \E t \in boot.live : t.kind = kind
            /\ boot.syncInterval # 0
         \/ /\ ~boot.isRunning
            /\ boot.live = {}


\* C38: after any sequence of passes, also when the update that marks a
\* transaction processed failed after its record was created, no two
\* BybitOrderInfo records carry the same (orderNo, userId).
C38_OneInfoPerTransaction ==
    \A i, j \in 1..Len(bybitOrderInfo) :
      (/\ bybitOrderInfo[i].orderNo = bybitOrderInfo[j].orderNo
       /\ bybitOrderInfo[i].userId = bybitOrderInfo[j].userId)
        => i = j


\* C39: when syncUserTransactions is about to write its status, the
\* success status stands for at least one row inserted by this call, and a
\* call that inserted no row reports that there are no new transactions.
C39_StatusAgreesWithRows ==
    \A c \in CycleIds :
      (deployed = "users" /\ cyc[c].pc = "status") =>
        /\ cyc[c].status.kind = "Success" => cyc[c].inserted >= 1
        /\ cyc[c].inserted = 0 => cyc[c].status.kind = "NoNew"


\* C40: for one text message that holds one number written without
\* separators, as "+7XXXXXXXXXX" or as "8XXXXXXXXXX", extractPhoneNumbers
\* returns the canonical "+7XXXXXXXXXX" and nothing else.
C40_CompactFormsOneNumber ==
    (/\ PhoneCallDone
     /\ Len(call.arg) = 1
     /\ call.arg[1].contentType = "str"
     /\ call.arg[1].message \in {PlusText, EightText})
      => call.result = {PlusText}

====
